---- MODULE Spec2Model ----
(***************************************************************************)
(* Model of the incremental indexing pipeline of swarm-indexer:            *)
(* Indexer.IndexPaths / Indexer.indexPath and its worker pool              *)
(* (internal/indexer/indexer.go), with the metadata, walker, chunker and   *)
(* embedding collaborators as the environment.                             *)
(***************************************************************************)
EXTENDS Integers, Sequences, FiniteSets, TLC

\* ---------------------------------------------------------------- bounds
MaxWorkers == 2      \* cfg.Workers is drawn from 1..MaxWorkers
MaxBatchSize == 2    \* cfg.BatchSize is drawn from 1..MaxBatchSize
MaxChunks == 2       \* a file yields 0..MaxChunks chunks
MaxRuns == 2         \* IndexPaths is called at most MaxRuns times
MaxTouch == 1        \* each root's tree is changed at most MaxTouch times
MaxBuilds == 2       \* records built by processFile in the index model
MaxLine == 2         \* chunk start lines are drawn from 1..MaxLine
MaxCalls == 3        \* Embed / EmbedBatch calls made on one GeminiClient
MaxTime == 8         \* the clock runs from 0 to MaxTime seconds
MaxTexts == 2        \* EmbedBatch is called with 0..MaxTexts texts
MaxEnsure == 3       \* EnsureCollection is called at most MaxEnsure times
MaxSearch == 2       \* Search is called at most MaxSearch times
MaxHits == 2         \* a result set of the backend holds 0..MaxHits hits

Roots == {1, 2}
PathLists == {<<1>>, <<1, 2>>, <<2, 1>>}
WorkerIds == 1..(MaxWorkers + 1)

NoHash == <<>>       \* the empty ContentHash ""

VARIABLES
    workers, batchSize,          \* Indexer.workers, Indexer.batchSize
    tree, treeVer, sidecarVer, meta, \* per root: files, their mtimes, sidecar mtime, stored ContentHash
    runs, paths, pathIdx, result, ctxErr,
    mpc, newHash, files, sent, jobs, closed,
    chunkBatch, batchMu, errors, processedCount,
    wpc, wjob, wchunks, wbatch,
    \* history variables
    inFlight, spawned, embedCalls, flushed, procCount, outcome, nchunks, chunkerOut, embedded, wLate,
    cancelPhase, rootLog, doneSince, hashedSince, hashState,
    runOrigPre, runAmendPre, upsertHist,
    \* TypesenseClient and the collection it writes to
    tsBatchSize, tsIndex, ixBatch, ixBuilt, tsChunks, tsI, tsResult, tspc, tsHist,
    tsInput, tsGroups, tsErrBatch, \* per UpsertChunks call: its argument, the groups imported, the group index in its error
    tsAnswers,                     \* per UpsertChunks call: the answer to each import request
    \* the collection on the backend, EnsureCollection and Search
    collExists, ecpc, ecCur, ecN, ecLog, ecResults,
    syFiles, syProjects, syDocs, sypc, syI, syP, syResult, syLog,   \* Sync: arguments, document store, position, result, history
    sN, sResp, sOut, sErr,
    \* GeminiClient: its limiter, the clock, and the calls in progress
    rateLimit, limTokens, limLast, limLastEvent, now,
    gpc, gCtx, gAttempt, gBackoff, gWake, gResult,
    gOp, gTexts, gVecs,          \* per call: the method, its texts, the vectors returned
    \* history variables of the GeminiClient
    gCalls, gHttp, gWaits, admits

cfgVars == <<workers, batchSize>>
envVars == <<tree, treeVer, sidecarVer, meta>>
callVars == <<runs, paths, pathIdx, result, ctxErr>>
rootVars == <<mpc, newHash, files, sent, jobs, closed, chunkBatch, batchMu, errors, processedCount>>
workerVars == <<wpc, wjob, wchunks, wbatch>>
histVars == <<inFlight, spawned, embedCalls, flushed, procCount, outcome, nchunks, chunkerOut, embedded, wLate,
              cancelPhase, rootLog, doneSince, hashedSince, hashState,
              runOrigPre, runAmendPre, upsertHist>>
pipelineVars == <<cfgVars, envVars, callVars, rootVars, workerVars, histVars>>
tsCallVars == <<tsInput, tsGroups, tsErrBatch, tsAnswers>>
tsVars == <<tsBatchSize, tsIndex, ixBatch, ixBuilt, tsChunks, tsI, tsResult, tspc, tsHist, tsCallVars>>
limVars == <<rateLimit, limTokens, limLast, limLastEvent>>
callerVars == <<gpc, gCtx, gAttempt, gBackoff, gWake, gResult>>
gHistVars == <<gCalls, gHttp, gWaits, admits>>
ioVars == <<gOp, gTexts, gVecs>>
gemVars == <<limVars, now, callerVars, ioVars, gHistVars>>
ecVars == <<collExists, ecpc, ecCur, ecN, ecLog, ecResults>>
searchVars == <<sN, sResp, sOut, sErr>>
backendVars == <<ecVars, searchVars>>
syncVars == <<syFiles, syProjects, syDocs, sypc, syI, syP, syResult, syLog>>
clientVars == <<tsVars, gemVars, backendVars, syncVars>>
vars == <<pipelineVars, clientVars>>

\* ---------------------------------------------------------------- helpers
Range(s) == {s[i] : i \in 1..Len(s)}

CurRoot == paths[pathIdx]

\* metadata.ComputeHash: hashes the sorted (relPath, mtime) entries of the
\* tree and leaves the metadata sidecar out.
ComputeHash(r) == <<treeVer[r]>>

\* Metadata.HasChanged: stored hash differs from the current one
HasChanged(stored, current) == stored # current

\* walker.Walk result: the files under the root, in WalkDir order
WalkFiles(r) == tree[r]

AllFiles == {1, 2, 3}

\* fmt.Errorf("walk failed: %w", err): the wrapped error is a new value
WalkFailed(e) == IF e = "Canceled" THEN "walk failed: Canceled"
                 ELSE IF e = "DeadlineExceeded" THEN "walk failed: DeadlineExceeded"
                 ELSE "walk failed: io"

\* the phase of the root's run a cancellation falls in: before the post-join
\* cancellation check of indexPath (line 375), between that check and the end
\* of the final flush, or after the final flush
CancelPhaseOf(pc) == IF pc = "finalflush" THEN "flush"
                     ELSE IF pc = "save" THEN "save" ELSE "early"

\* ctx.Done() is closed
CtxDone(e) == e # "none"

\* IndexPaths: only the unwrapped context.Canceled value ends the loop
IsFatalAny(err) == err # "nil"
IsFatalWrapped(err) == err \in {"Canceled", "walk failed: Canceled"}
IsFatal(err) == err = "Canceled"

\* start-workers loop: for w := 0; w < i.workers; w++
NumToSpawnOffByOne(n) == n + 1
NumToSpawn(n) == n

\* the unchanged-root early return of indexPath
SkipRootNever(changed) == FALSE
SkipRoot(changed) == ~changed

\* for job := range jobs: the received job leaves the channel
\* indexPath, lines 337 and 341: batchMu.Unlock() on both branches of the
\* threshold check, before flushBatch; 0 is the unlocked mutex
MuAfterAppendHeld(w, full) == IF full THEN w ELSE 0
MuAfterAppend(w, full) == 0

\* indexPath, line 289: jobs := make(chan fileJob, len(files))
JobsCap(fs) == Len(fs)

\* worker loop, line 302: for job := range jobs ends when the channel is
\* closed and empty
ChannelDrainedNever(q, isClosed) == FALSE
ChannelDrained(q, isClosed) == q = <<>> /\ isClosed

DequeueKeep(q) == q
Dequeue(q) == Tail(q)

\* the per-job select on ctx.Done() in the worker loop
WorkerSeesDoneNever(e) == FALSE
WorkerSeesDone(e) == CtxDone(e)

\* chunkBatch = chunkBatch[:0] after the detach
AfterDetachKeep(b) == b
AfterDetach(b) == <<>>

\* where the worker goes after processFile returned (error or not)
AfterProcessAbort(failed, n) ==
    IF failed THEN "done" ELSE IF n > 0 THEN "lock" ELSE "dequeue"
AfterProcess(failed, n) == IF n > 0 THEN "lock" ELSE "dequeue"

\* IndexedChunk records of file f with n chunks, in chunk order
ChunksOf(f, n) == [j \in 1..n |-> <<f, j>>]

\* the step at which processFile returns early: the test hook fails, the
\* file scan fails, the scan says skip, the read fails, the content scan
\* fails, the chunker fails, the embedding call fails, or none of these
StopPoints == {"hook", "scan", "skip", "read", "content", "chunk", "embed", "none"}

\* texts[j] = chunks[j].Content: the chunk contents in chunk order
Texts(f, c) == [j \in 1..c |-> <<f, j>>]

\* one GenerateEmbeddings call for all the chunks of the file
EmbedCallsPerChunk(f, c) == [j \in 1..c |-> <<<<f, j>>>>]
EmbedCalls(f, c) == <<Texts(f, c)>>

\* processFile on file f when it stops at step stop and the chunker (if
\* reached) returns c chunks: the records returned, whether an error is
\* returned, the chunker's chunk count, and the GenerateEmbeddings calls made
processFile(f, stop, c) ==
    IF stop \in {"hook", "scan", "read", "content", "chunk"}
    THEN [chunks |-> <<>>, err |-> TRUE, chunked |-> 0, calls |-> <<>>]
    ELSE IF stop = "skip" \/ c = 0
    THEN [chunks |-> <<>>, err |-> FALSE, chunked |-> 0, calls |-> <<>>]
    ELSE IF stop = "embed"
    THEN [chunks |-> <<>>, err |-> TRUE, chunked |-> c, calls |-> EmbedCalls(f, c)]
    ELSE [chunks |-> ChunksOf(f, c), err |-> FALSE, chunked |-> c, calls |-> EmbedCalls(f, c)]

\* ---------------------------------------------------------------- Init
InitRest ==
    /\ workers \in 1..MaxWorkers
    /\ batchSize \in 1..MaxBatchSize
    /\ treeVer = [r \in Roots |-> 0]
    /\ sidecarVer = [r \in Roots |-> 0]
    /\ meta = [r \in Roots |-> NoHash]
    /\ runs = 0 /\ paths = <<>> /\ pathIdx = 0 /\ result = "none" /\ ctxErr = "none"
    /\ mpc = "idle" /\ newHash = NoHash /\ files = <<>> /\ sent = 0
    /\ jobs = <<>> /\ closed = FALSE
    /\ chunkBatch = <<>> /\ batchMu = 0 /\ errors = <<>> /\ processedCount = 0
    /\ wpc = [w \in WorkerIds |-> "none"]
    /\ wjob = [w \in WorkerIds |-> 0]
    /\ wchunks = [w \in WorkerIds |-> <<>>]
    /\ wbatch = [w \in WorkerIds |-> <<>>]
    /\ inFlight = 0
    /\ spawned = 0
    /\ embedCalls = 0
    /\ flushed = <<>>
    /\ procCount = [f \in AllFiles |-> 0]
    /\ outcome = [f \in AllFiles |-> "none"]
    /\ nchunks = [f \in AllFiles |-> 0]
    /\ chunkerOut = [f \in AllFiles |-> 0]
    /\ embedded = [f \in AllFiles |-> <<>>]
    /\ wLate = [w \in WorkerIds |-> FALSE]
    /\ cancelPhase = "none"
    /\ rootLog = <<>>
    /\ doneSince = [r \in Roots |-> FALSE]
    /\ hashedSince = [r \in Roots |-> FALSE]
    /\ hashState = "fresh"
    /\ runOrigPre = FALSE
    /\ runAmendPre = FALSE
    /\ upsertHist = "none"

\* ---------------------------------------------------------------- search index
defaultBatchSize == 100

\* c.batchSize: 0 in a zero-value client, defaultBatchSize from the
\* constructor, small values set by the package's own callers
TsBatchSizes == {0, 1, 2, defaultBatchSize}

RootLocs == {<<"a">>, <<"b">>}       \* root directories, as path segments
RelPaths == {<<"f">>, <<"g">>}       \* paths relative to a root
Contents == {"v1", "v2"}             \* chunk texts

\* filepath.WalkDir hands the callback the root joined with the relative path
JoinPath(root, rel) == root \o rel

\* generateChunkID: the first 16 hex digits of sha256("<path>:<startLine>"),
\* one value per (path, startLine) pair
generateChunkID(path, startLine) == <<path, startLine>>

AllIds == {generateChunkID(JoinPath(root, rel), line) :
               root \in RootLocs, rel \in RelPaths, line \in 1..MaxLine}

\* processFile, lines 475-491: the record of one chunk of job
\* (path = JoinPath(root, rel), relPath = rel, projectPath = root)
IndexedChunk(root, rel, line, content) ==
    [ID |-> generateChunkID(JoinPath(root, rel), line),
     FilePath |-> rel, ProjectPath |-> root,
     Content |-> content, StartLine |-> line]

\* documents/import?action=upsert on one document: a document with the
\* same id is replaced
InsertDoc(idx, d) == idx \cup {d}
UpsertDocByPath(idx, d) ==
    {e \in idx : e.FilePath # d.FilePath \/ e.ProjectPath # d.ProjectPath} \cup {d}
UpsertDoc(idx, d) == {e \in idx : e.ID # d.ID} \cup {d}

\* the import of a JSONL body, document by document
RECURSIVE ImportUpsert(_, _)
ImportUpsert(idx, batch) ==
    IF batch = <<>> THEN idx
    ELSE ImportUpsert(UpsertDoc(idx, Head(batch)), Tail(batch))

\* the contents written under each id so far, in write order
RECURSIVE HistAfter(_, _)
HistAfter(h, batch) ==
    IF batch = <<>> THEN h
    ELSE HistAfter([h EXCEPT ![Head(batch).ID] = Append(@, Head(batch).Content)],
                   Tail(batch))

\* UpsertChunks, lines 140-143
EffBatchSizePlusOne(n) == IF n <= 0 THEN defaultBatchSize + 1 ELSE n + 1
EffBatchSize(n) == IF n <= 0 THEN defaultBatchSize ELSE n

\* the group index of the error "upserting batch %d", line 153; NoBatch when
\* the call reported no group
NoBatch == 0 - 1
ErrBatchIndexOneBased(i, bs) == i \div bs + 1
ErrBatchIndex(i, bs) == i \div bs

Min(a, b) == IF a < b THEN a ELSE b

TsRest ==
    /\ tsIndex = {} /\ ixBatch = <<>> /\ ixBuilt = 0
    /\ tsChunks = <<>> /\ tsI = 0 /\ tsResult = "none" /\ tspc = "idle"
    /\ tsHist = [id \in AllIds |-> <<>>]
    /\ tsInput = <<>> /\ tsGroups = <<>> /\ tsErrBatch = NoBatch /\ tsAnswers = <<>>

EnsureCallers == {1, 2}      \* goroutines calling EnsureCollection

\* EnsureCollection, lines 76-84: what the status of the existence check means
CollectionExists(status) == status = 200
NeedsCreateUnlessExists(status) == status # 200
NeedsCreate(status) == status = 404
\* createCollection, line 126
CreateOk(status) == status \in {200, 201}

\* the answers of the backend: to GET /collections/<name>, by whether the
\* collection exists, and to POST /collections, with what the request did
\* to the collection; status 0 stands for no response
GetAnswers(exists) == {IF exists THEN 200 ELSE 404, 500, 0}
PostAnswers(exists) ==
    IF exists THEN {[status |-> 409, created |-> FALSE],
                    [status |-> 0, created |-> FALSE]}
    ELSE {[status |-> 201, created |-> TRUE],
          [status |-> 500, created |-> FALSE],
          [status |-> 0, created |-> FALSE],
          [status |-> 0, created |-> TRUE]}

\* the answers of the backend to a search: a status and a body that decodes
\* or not into result sets, each a list of hits
HitDocs == {IndexedChunk(<<"a">>, rel, 1, "v1") : rel \in RelPaths}
Hits == {[document |-> d] : d \in HitDocs}
HitLists == UNION {[1..n -> Hits] : n \in 0..MaxHits}
NoResponse == [status |-> 0, body |-> "", results |-> <<>>]
SearchAnswers ==
    {[status |-> 200, body |-> "ok", results |-> rs] :
        rs \in {<<>>} \cup {<<h>> : h \in HitLists}
                 \cup {<<h, <<>>>> : h \in HitLists}}
    \cup {[status |-> 200, body |-> "bad", results |-> <<>>],
          [status |-> 500, body |-> "ok", results |-> <<>>],
          NoResponse}

\* Search, lines 247-252: the documents of the hits of the first result set
DocsOfDropLast(hits) == [k \in 1..(Len(hits) - 1) |-> hits[k].document]
DocsOf(hits) == [k \in 1..Len(hits) |-> hits[k].document]

\* Search, lines 224-254: the error returned for an answer
SearchError(resp) ==
    IF resp.status = 0 THEN "executing search"
    ELSE IF resp.status # 200 THEN "search failed with status"
    ELSE IF resp.body = "bad" THEN "decoding response"
    ELSE "nil"

\* no EnsureCollection and no Search call has been made
BackendRest ==
    /\ ecpc = [c \in EnsureCallers |-> "idle"]
    /\ ecCur = [c \in EnsureCallers |-> 0]
    /\ ecN = 0 /\ ecLog = <<>> /\ ecResults = <<>>
    /\ sN = 0 /\ sResp = NoResponse /\ sOut = <<>> /\ sErr = "none"

NewTypesenseClient ==
    /\ tsBatchSize = defaultBatchSize
    /\ TsRest
    /\ collExists = FALSE /\ BackendRest

\* ---------------------------------------------------------------- embedding client
defaultRateLimit == 60      \* requests per minute
maxRetries == 3
initialBackoff == 1         \* seconds
backoffMultiplier == 2

Callers == {1, 2}                    \* goroutines calling Embed / EmbedBatch
RateLimits == {0, 30, 60}            \* the rateLimit argument of NewGeminiClient

\* seconds per token of rate.NewLimiter(rate.Limit(rateLimit / 60.0), 1)
Interval(rl) == 60 \div rl

\* errors and results, as (kind, cause, status)
NoResult == [kind |-> "none", cause |-> "", status |-> 0]
Nil == [kind |-> "nil", cause |-> "", status |-> 0]
InvalidInputNil == Nil
InvalidInput == [kind |-> "invalid input", cause |-> "", status |-> 0]
\* fmt.Errorf("rate limiter error: %w", err)
LimiterError(e) == [kind |-> "rate limiter error", cause |-> e, status |-> 0]
\* ctx.Err()
CtxErr(e) == [kind |-> "ctx", cause |-> e, status |-> 0]
\* fmt.Errorf("max retries exceeded: %w", lastErr)
RetriesExceeded(lastErr) ==
    [kind |-> "max retries exceeded", cause |-> lastErr.kind, status |-> lastErr.status]

\* the answers one HTTP attempt can get: a response with a status and a
\* body that decodes or not, no response at all, or the context ending it
Statuses == {200, 400, 404, 429, 500, 502, 503, 504}
Outcomes ==
    {[kind |-> "response", body |-> "ok", status |-> st] : st \in Statuses}
    \cup {[kind |-> "response", body |-> "bad", status |-> 200],
          [kind |-> "no response", body |-> "", status |-> 0],
          [kind |-> "ctx", body |-> "", status |-> 0]}
Answer200 == [kind |-> "response", body |-> "ok", status |-> 200]
\* a 200 whose body decodes but holds one embedding less, or one more, than
\* the request had texts
AnswerShort == [kind |-> "response", body |-> "short", status |-> 200]
AnswerLong == [kind |-> "response", body |-> "long", status |-> 200]
Answer503 == [kind |-> "response", body |-> "ok", status |-> 503]
AnswerCtx == [kind |-> "ctx", body |-> "", status |-> 0]

BatchOutcomes == {Answer200, AnswerShort, AnswerLong, Answer503, AnswerCtx}

\* the inputs of Embed (one text) and of EmbedBatch (a list of texts)
TextSet == {"s", "t"}
EmbedInputs == {[op |-> "Embed", texts |-> <<t>>] : t \in {"", "t"}}
EmbedBatchInputs ==
    {[op |-> "EmbedBatch", texts |-> ts] :
        ts \in UNION {[1..n -> TextSet] : n \in 0..MaxTexts}}

\* the input checks: text == "" in Embed, len(texts) == 0 in EmbedBatch
InputValidAlways(call) == TRUE
InputValid(call) ==
    IF call.op = "Embed" THEN call.texts[1] # "" ELSE Len(call.texts) # 0

\* the vector the service computes for a text
Emb(t) == [of |-> t]

\* the embeddings held by the body of a 200 answer to a request for texts
Served(o, texts) ==
    LET all == [i \in 1..Len(texts) |-> Emb(texts[i])]
    IN IF o.body = "short" THEN SubSeq(all, 1, Len(texts) - 1)
       ELSE IF o.body = "long" THEN Append(all, Emb("t"))
       ELSE all

\* EmbedBatch, lines 144-149 (Embed, line 114): the vectors returned are
\* those of the response, one for one and in its order
Decode(o, texts) == [i \in 1..Len(Served(o, texts)) |-> Served(o, texts)[i]]

\* doRequest: nil for a 200 whose body decodes, an *APIError for any other
\* status, a wrapped error otherwise
doRequestNoDecode(o, ctx) ==
    IF o.kind = "ctx" THEN [kind |-> "request failed", cause |-> ctx, status |-> 0]
    ELSE IF o.kind = "no response"
    THEN [kind |-> "request failed", cause |-> "io", status |-> 0]
    ELSE IF o.status # 200 THEN [kind |-> "APIError", cause |-> "", status |-> o.status]
    ELSE Nil
doRequest(o, ctx) ==
    IF o.kind = "ctx" THEN [kind |-> "request failed", cause |-> ctx, status |-> 0]
    ELSE IF o.kind = "no response"
    THEN [kind |-> "request failed", cause |-> "io", status |-> 0]
    ELSE IF o.status # 200 THEN [kind |-> "APIError", cause |-> "", status |-> o.status]
    ELSE IF o.body = "bad"
    THEN [kind |-> "failed to unmarshal response", cause |-> "", status |-> 0]
    ELSE Nil

\* APIError.IsRetryable
IsRetryableOnly5xx(status) == status \in {500, 502, 503, 504}
IsRetryable(status) == status \in {429, 500, 502, 503, 504}

\* doRequestWithRetry, lines 174-178: a non-retryable API error is returned at once
StopsOnAPIErrorNever(err) == FALSE
StopsOnAPIError(err) == err.kind = "APIError" /\ ~IsRetryable(err.status)

\* doRequestWithRetry, lines 180-183: context errors are not retried
StopsOnContextError(err) == err.cause \in {"Canceled", "DeadlineExceeded"}

\* the select of the backoff, line 160: case <-ctx.Done() is ready
SleepInterruptedNever(ctx) == FALSE
SleepInterrupted(ctx) == CtxDone(ctx)

\* line 163: backoff *= backoffMultiplier
NextBackoffSame(b) == b
NextBackoff(b) == b * backoffMultiplier

\* the loop condition attempt <= maxRetries
LoopContinuesOneLess(attempt) == attempt < maxRetries
LoopContinues(attempt) == attempt <= maxRetries

\* rate.Limiter with burst 1, in token-seconds (one token = Interval seconds):
\* the bucket refills with time, up to one token
AdvanceUncapped(tokens, elapsed, rl) == tokens + elapsed
Advance(tokens, elapsed, rl) ==
    IF tokens + elapsed > Interval(rl) THEN Interval(rl) ELSE tokens + elapsed

\* a reservation of one token at time t: the tokens left and the delay
ReserveTokens(t) == Advance(limTokens, t - limLast, rateLimit) - Interval(rateLimit)
ReserveDelay(t) == IF ReserveTokens(t) < 0 THEN 0 - ReserveTokens(t) ELSE 0

\* NewGeminiClient: a non-positive rate limit becomes the default; the
\* limiter starts with its one token
NewGeminiClient(rl) ==
    /\ rateLimit = IF rl <= 0 THEN defaultRateLimit ELSE rl
    /\ limTokens = Interval(IF rl <= 0 THEN defaultRateLimit ELSE rl)
    /\ limLast = 0 /\ limLastEvent = 0 /\ now = 0
    /\ gpc = [c \in Callers |-> "idle"]
    /\ gCtx = [c \in Callers |-> "none"]
    /\ gAttempt = [c \in Callers |-> 0]
    /\ gBackoff = [c \in Callers |-> initialBackoff]
    /\ gWake = [c \in Callers |-> 0]
    /\ gResult = [c \in Callers |-> NoResult]
    /\ gOp = [c \in Callers |-> "none"]
    /\ gTexts = [c \in Callers |-> <<>>]
    /\ gVecs = [c \in Callers |-> <<>>]
    /\ gCalls = 0
    /\ gHttp = [c \in Callers |-> <<>>]
    /\ gWaits = [c \in Callers |-> 0]
    /\ admits = <<>>

\* ---------------------------------------------------------------- Sync
MaxFiles == 2

SyRoots == {"a", "b"}                               \* project root paths
SyPaths == {<<"a", "f">>, <<"a", "g">>, <<"b", "f">>}   \* file paths, as (root, name)
SyTimes == {1, 2, 3}                                \* Unix timestamps

\* FileInfo and the input lists of Sync
FileInfos == {[Path |-> p, LastModified |-> t] : p \in SyPaths, t \in {1, 2}}
FileLists == UNION {[1..n -> FileInfos] : n \in 0..MaxFiles}
ProjectLists == {<<>>, <<"a">>, <<"a", "b">>}

\* ComputeDocumentID: the hex sha256 of the path, one value per path
ComputeDocumentID(path) == <<"id", path>>

Document(path, t) == [ID |-> ComputeDocumentID(path), Path |-> path, IndexedAt |-> t]

\* Client.GetDocument: the stored document of an id, NoDocument for nil
NoDocument == [ID |-> <<"id", <<>>>>, Path |-> <<>>, IndexedAt |-> 0]
GetDocument(docs, id) ==
    IF \E d \in docs : d.ID = id THEN CHOOSE d \in docs : d.ID = id ELSE NoDocument

\* Client.UpsertDocument
UpsertDocument(docs, doc) == {d \in docs : d.ID # doc.ID} \cup {doc}

\* Client.SearchByPathPrefix
SearchByPathPrefix(docs, prefix) == {d \in docs : d.Path[1] = prefix}

\* Sync, line 39: file.LastModified > existingDoc.IndexedAt
IsModifiedOrSame(file, doc) == file.LastModified >= doc.IndexedAt
IsModified(file, doc) == file.LastModified > doc.IndexedAt

\* var result SyncResult
ZeroResult == [Added |-> 0, Updated |-> 0, Unchanged |-> 0, Deleted |-> 0, Failed |-> 0]

\* no call of Sync has been made
SyncRest ==
    /\ syFiles = <<>> /\ syProjects = <<>> /\ sypc = "idle" /\ syI = 0 /\ syP = 0
    /\ syResult = ZeroResult /\ syLog = <<>>

\* ---------------------------------------------------------------- Init, continued
\* two roots: root 1 holds one file, root 2 none
Init ==
    /\ tree = [r \in Roots |-> IF r = 1 THEN <<1>> ELSE <<>>]
    /\ InitRest
    /\ syDocs = {} /\ SyncRest
    /\ NewTypesenseClient
    /\ NewGeminiClient(defaultRateLimit)

\* one root of three files
InitPool ==
    /\ tree = [r \in Roots |-> IF r = 1 THEN <<1, 2, 3>> ELSE <<>>]
    /\ InitRest
    /\ syDocs = {} /\ SyncRest
    /\ NewTypesenseClient
    /\ NewGeminiClient(defaultRateLimit)

\* ---------------------------------------------------------------- IndexPaths
\* the locals of indexPath go out of scope when it returns
ResetLocals ==
    /\ newHash' = NoHash /\ files' = <<>> /\ sent' = 0 /\ jobs' = <<>> /\ closed' = FALSE
    /\ chunkBatch' = <<>> /\ errors' = <<>> /\ processedCount' = 0
    /\ flushed' = <<>>
    /\ procCount' = [f \in AllFiles |-> 0]
    /\ outcome' = [f \in AllFiles |-> "none"]
    /\ nchunks' = [f \in AllFiles |-> 0]
    /\ chunkerOut' = [f \in AllFiles |-> 0]
    /\ embedded' = [f \in AllFiles |-> <<>>]

KeepLocals ==
    UNCHANGED <<newHash, files, sent, jobs, closed, chunkBatch, errors, processedCount,
                flushed, procCount, outcome, nchunks, chunkerOut, embedded>>

\* indexPath returned err for the current root: the loop of IndexPaths
RootReturns(err, how) ==
    /\ rootLog' = Append(rootLog, [how |-> how, err |-> err, failed |-> Len(errors),
                                   spawned |-> IF how = "skipped" THEN 0 ELSE spawned,
                                   upsert |-> IF how = "skipped" THEN "none" ELSE upsertHist])
    /\ ResetLocals
    /\ IF IsFatal(err)
       THEN /\ result' = err /\ mpc' = "idle" /\ pathIdx' = pathIdx
       ELSE IF pathIdx = Len(paths)
            THEN /\ result' = "nil" /\ mpc' = "idle" /\ pathIdx' = pathIdx
            ELSE /\ result' = result /\ mpc' = "load" /\ pathIdx' = pathIdx + 1

\* the root's run goes on to its next step
RootGoes(pc) ==
    /\ mpc' = pc
    /\ UNCHANGED <<result, pathIdx, rootLog>>

IndexPathsCall(ps) ==
    /\ mpc = "idle"
    /\ paths' = ps
    /\ runs' = runs + 1 /\ pathIdx' = 1 /\ result' = "none" /\ ctxErr' = "none"
    /\ mpc' = "load"
    /\ cancelPhase' = "none" /\ rootLog' = <<>>
    /\ KeepLocals
    /\ UNCHANGED <<clientVars, cfgVars, envVars, workerVars, batchMu>>
    /\ UNCHANGED <<inFlight, spawned, embedCalls, wLate,
                   doneSince, hashedSince, hashState, runOrigPre, runAmendPre, upsertHist>>

\* indexPath, lines 261-276: Load, HasChanged, unchanged-root skip
LoadAndHash(loadErr, hashErr) ==
    /\ mpc = "load"
    /\ LET r == CurRoot
           cur == IF hashErr THEN NoHash ELSE ComputeHash(r)
           changed == IF hashErr \/ loadErr THEN TRUE
                      ELSE HasChanged(meta[r], cur)
       IN /\ runOrigPre' = (doneSince[r] /\ ~loadErr /\ ~hashErr)
          /\ runAmendPre' = (hashedSince[r] /\ ~loadErr /\ ~hashErr)
          /\ hashState' = IF hashErr THEN "error" ELSE "fresh"
          /\ spawned' = 0
          /\ embedCalls' = 0
          /\ upsertHist' = "none"
          /\ IF SkipRoot(changed)
             THEN RootReturns("nil", "skipped")
             ELSE /\ RootGoes("walk")
                  /\ newHash' = cur
                  /\ UNCHANGED <<files, sent, jobs, closed, chunkBatch, errors,
                                 processedCount, flushed, procCount, outcome, nchunks, chunkerOut, embedded>>
    /\ UNCHANGED <<clientVars, cfgVars, envVars, workerVars, runs, paths, ctxErr, batchMu>>
    /\ UNCHANGED <<inFlight, wLate, cancelPhase, doneSince, hashedSince>>

\* indexPath, lines 278-286: walker.Walk and the empty-root return
Walk ==
    /\ mpc = "walk"
    /\ \/ /\ CtxDone(ctxErr)
          /\ RootReturns(WalkFailed(ctxErr), "walkfailed")
       \/ /\ ~CtxDone(ctxErr)
          /\ RootReturns(WalkFailed("io"), "walkfailed")
       \/ /\ ~CtxDone(ctxErr)
          /\ IF Len(WalkFiles(CurRoot)) = 0
             THEN RootReturns("nil", "empty")
             ELSE /\ RootGoes("spawn")
                  /\ files' = WalkFiles(CurRoot)
                  /\ UNCHANGED <<newHash, sent, jobs, closed, chunkBatch, errors,
                                 processedCount, flushed, procCount, outcome, nchunks, chunkerOut, embedded>>
    /\ UNCHANGED <<clientVars, cfgVars, envVars, workerVars, runs, paths, ctxErr, batchMu>>
    /\ UNCHANGED <<inFlight, spawned, embedCalls, wLate,
                   cancelPhase, doneSince, hashedSince, hashState, runOrigPre, runAmendPre, upsertHist>>

\* indexPath, lines 288-357: make the channel, start the workers
StartWorkers ==
    /\ mpc = "spawn"
    /\ wpc' = [w \in WorkerIds |-> IF w <= NumToSpawn(workers) THEN "dequeue" ELSE "none"]
    /\ spawned' = NumToSpawn(workers)
    /\ RootGoes("send")
    /\ KeepLocals
    /\ UNCHANGED <<clientVars, cfgVars, envVars, runs, paths, ctxErr, batchMu, wjob, wchunks, wbatch>>
    /\ UNCHANGED <<inFlight, embedCalls, wLate,
                   cancelPhase, doneSince, hashedSince, hashState, runOrigPre, runAmendPre, upsertHist>>

\* indexPath, lines 359-368: the send loop; the channel has room for every file
SendJob ==
    /\ mpc = "send" /\ sent < Len(files)
    /\ \/ /\ CtxDone(ctxErr)
          /\ closed' = TRUE /\ mpc' = "waitcancel"
          /\ UNCHANGED <<jobs, sent>>
       \/ /\ Len(jobs) < JobsCap(files)
          /\ jobs' = Append(jobs, files[sent + 1])
          /\ sent' = sent + 1
          /\ mpc' = IF sent + 1 = Len(files) THEN "close" ELSE "send"
          /\ UNCHANGED closed
    /\ UNCHANGED <<clientVars, cfgVars, envVars, callVars, workerVars>>
    /\ UNCHANGED <<newHash, files, chunkBatch, batchMu, errors, processedCount>>
    /\ UNCHANGED histVars

\* indexPath, line 369: close(jobs)
CloseJobs ==
    /\ mpc = "close"
    /\ closed' = TRUE /\ mpc' = "wait"
    /\ UNCHANGED <<clientVars, cfgVars, envVars, callVars, workerVars>>
    /\ UNCHANGED <<newHash, files, sent, jobs, chunkBatch, batchMu, errors, processedCount>>
    /\ UNCHANGED histVars

\* wg.Wait(), line 372, returns when every worker has called wg.Done()
AllWorkersDoneNoWait == TRUE
AllWorkersDone == \A w \in WorkerIds : wpc[w] \in {"none", "done"}

\* indexPath, lines 363-365: wg.Wait() and return ctx.Err()
WaitCanceled ==
    /\ mpc = "waitcancel" /\ AllWorkersDone
    /\ RootReturns(ctxErr, "canceled")
    /\ wpc' = [w \in WorkerIds |-> "none"]
    /\ UNCHANGED <<clientVars, cfgVars, envVars, runs, paths, ctxErr, batchMu, wjob, wchunks, wbatch>>
    /\ UNCHANGED <<inFlight, spawned, embedCalls, wLate,
                   cancelPhase, doneSince, hashedSince, hashState, runOrigPre, runAmendPre, upsertHist>>

\* indexPath, lines 371-379: wg.Wait() and the cancellation check
WaitAndCheck ==
    /\ mpc = "wait" /\ AllWorkersDone
    /\ wpc' = [w \in WorkerIds |-> "none"]
    /\ IF CtxDone(ctxErr)
       THEN RootReturns(ctxErr, "canceled")
       ELSE RootGoes("finalflush") /\ KeepLocals
    /\ UNCHANGED <<clientVars, cfgVars, envVars, runs, paths, ctxErr, batchMu, wjob, wchunks, wbatch>>
    /\ UNCHANGED <<inFlight, spawned, embedCalls, wLate,
                   cancelPhase, doneSince, hashedSince, hashState, runOrigPre, runAmendPre, upsertHist>>

\* flushBatch: an empty batch is dropped, any other is handed to UpsertBatch
FlushBatch(log, batch) == IF Len(batch) = 0 THEN log ELSE Append(log, batch)

\* flushBatch returns nothing: an UpsertBatch error is logged and the caller
\* carries on as after a successful upsert
FlushAbortsOnError(ok) == ~ok
FlushAborts(ok) == FALSE

\* what the run has seen of UpsertBatch results: no failure, a failure, or a
\* failure followed by a later successful upsert
UpsertSeen(h, ok) ==
    IF ok THEN (IF h = "failed" THEN "failedThenOk" ELSE h)
    ELSE (IF h = "none" THEN "failed" ELSE h)

\* indexPath, lines 381-390: flush the remaining partial batch
FinalFlush(ok) ==
    /\ mpc = "finalflush" /\ batchMu = 0
    /\ (chunkBatch = <<>>) => ok
    /\ upsertHist' = IF chunkBatch = <<>> THEN upsertHist ELSE UpsertSeen(upsertHist, ok)
    /\ IF FlushAborts(ok)
       THEN RootReturns("upsert failed", "flushfailed")
       ELSE /\ flushed' = FlushBatch(flushed, chunkBatch)
            /\ RootGoes("save")
            /\ UNCHANGED <<newHash, files, sent, jobs, closed, chunkBatch, errors,
                           processedCount, procCount, outcome, nchunks, chunkerOut, embedded>>
    /\ UNCHANGED <<clientVars, cfgVars, envVars, runs, paths, ctxErr, workerVars, batchMu>>
    /\ UNCHANGED <<inFlight, spawned, embedCalls, wLate,
                   cancelPhase, doneSince, hashedSince, hashState,
                   runOrigPre, runAmendPre>>

\* indexPath, lines 392-405: save the metadata (a failure is only logged)
\* indexPath, line 396: ContentHash: newHash, the hash HasChanged returned
\* at line 267
SavedHashRecomputed(r, h) == ComputeHash(r)
SavedHash(r, h) == h

SaveMetadata(saveErr) ==
    /\ mpc = "save"
    /\ LET r == CurRoot
       IN IF saveErr
          THEN /\ UNCHANGED <<meta, sidecarVer, doneSince, hashedSince>>
               /\ RootReturns("nil", "unsaved")
          ELSE /\ meta' = [meta EXCEPT ![r] = SavedHash(r, newHash)]
               /\ sidecarVer' = [sidecarVer EXCEPT ![r] = @ + 1]
               /\ doneSince' = [doneSince EXCEPT ![r] = (hashState # "error")]
               /\ hashedSince' = [hashedSince EXCEPT ![r] = (hashState = "fresh")]
               /\ RootReturns("nil", "saved")
    /\ UNCHANGED <<clientVars, cfgVars, tree, treeVer, runs, paths, ctxErr, workerVars, batchMu>>
    /\ UNCHANGED <<inFlight, spawned, embedCalls, wLate,
                   cancelPhase, hashState, runOrigPre, runAmendPre, upsertHist>>

\* ---------------------------------------------------------------- workers
\* worker loop, line 302: for job := range jobs
WorkerDequeue(w) ==
    /\ wpc[w] = "dequeue"
    /\ \/ /\ jobs # <<>>
          /\ wjob' = [wjob EXCEPT ![w] = Head(jobs)]
          /\ jobs' = Dequeue(jobs)
          /\ wLate' = [wLate EXCEPT ![w] = CtxDone(ctxErr)]
          /\ wpc' = [wpc EXCEPT ![w] = "check"]
       \/ /\ ChannelDrained(jobs, closed)
          /\ wpc' = [wpc EXCEPT ![w] = "done"]
          /\ wjob' = [wjob EXCEPT ![w] = 0]
          /\ wLate' = [wLate EXCEPT ![w] = FALSE]
          /\ UNCHANGED jobs
    /\ UNCHANGED <<clientVars, cfgVars, envVars, callVars, wchunks, wbatch>>
    /\ UNCHANGED <<mpc, newHash, files, sent, closed, chunkBatch, batchMu, errors, processedCount>>
    /\ UNCHANGED <<inFlight, spawned, embedCalls, flushed, procCount, outcome, nchunks, chunkerOut, embedded,
                   cancelPhase, rootLog, doneSince, hashedSince, hashState,
                   runOrigPre, runAmendPre, upsertHist>>

\* worker loop, lines 303-312: the ctx check, then processingCallback(true)
WorkerCheck(w) ==
    /\ wpc[w] = "check"
    /\ IF WorkerSeesDone(ctxErr)
       THEN /\ wpc' = [wpc EXCEPT ![w] = "done"]
            /\ wjob' = [wjob EXCEPT ![w] = 0]
            /\ wLate' = [wLate EXCEPT ![w] = FALSE]
            /\ UNCHANGED <<inFlight, procCount>>
       ELSE /\ wpc' = [wpc EXCEPT ![w] = "process"]
            /\ inFlight' = inFlight + 1
            /\ procCount' = [procCount EXCEPT ![wjob[w]] = @ + 1]
            /\ UNCHANGED <<wjob, wLate>>
    /\ UNCHANGED <<clientVars, cfgVars, envVars, callVars, rootVars, wchunks, wbatch>>
    /\ UNCHANGED <<spawned, embedCalls, flushed, outcome, nchunks, chunkerOut, embedded,
                   cancelPhase, rootLog, doneSince, hashedSince, hashState,
                   runOrigPre, runAmendPre, upsertHist>>

\* worker loop, lines 314-325 with processFile: an error is appended to
\* errors, the records returned go on to the batch buffer
WorkerProcess(w) ==
    /\ wpc[w] = "process"
    /\ \E stop \in StopPoints, c \in 0..MaxChunks :
         LET f == wjob[w]
             r == processFile(f, stop, c)
             n == Len(r.chunks)
         IN /\ errors' = IF r.err THEN Append(errors, f) ELSE errors
            /\ outcome' = [outcome EXCEPT ![f] = IF r.err THEN "failed" ELSE "ok"]
            /\ nchunks' = [nchunks EXCEPT ![f] = n]
            /\ chunkerOut' = [chunkerOut EXCEPT ![f] = r.chunked]
            /\ embedded' = [embedded EXCEPT ![f] = r.calls]
            /\ embedCalls' = embedCalls + Len(r.calls)
            /\ wchunks' = [wchunks EXCEPT ![w] = r.chunks]
            /\ wpc' = [wpc EXCEPT ![w] = AfterProcess(r.err, n)]
            /\ processedCount' = IF AfterProcess(r.err, n) = "lock"
                                 THEN processedCount ELSE processedCount + 1
    /\ inFlight' = inFlight - 1
    /\ wjob' = [wjob EXCEPT ![w] = 0]
    /\ wLate' = [wLate EXCEPT ![w] = FALSE]
    /\ UNCHANGED <<clientVars, cfgVars, envVars, callVars, wbatch>>
    /\ UNCHANGED <<mpc, newHash, files, sent, jobs, closed, chunkBatch, batchMu>>
    /\ UNCHANGED <<spawned, flushed, procCount,
                   cancelPhase, rootLog, doneSince, hashedSince, hashState,
                   runOrigPre, runAmendPre, upsertHist>>

\* worker loop, line 329: batchMu.Lock()
WorkerLock(w) ==
    /\ wpc[w] = "lock" /\ batchMu = 0
    /\ batchMu' = w
    /\ wpc' = [wpc EXCEPT ![w] = "crit"]
    /\ UNCHANGED <<clientVars, cfgVars, envVars, callVars, wjob, wchunks, wbatch>>
    /\ UNCHANGED <<mpc, newHash, files, sent, jobs, closed, chunkBatch, errors, processedCount>>
    /\ UNCHANGED histVars

\* worker loop, lines 330-342: append, threshold check, detach, unlock
WorkerAppend(w) ==
    /\ wpc[w] = "crit" /\ batchMu = w
    /\ LET grown == chunkBatch \o wchunks[w]
       IN IF Len(grown) >= batchSize
          THEN /\ wbatch' = [wbatch EXCEPT ![w] = grown]
               /\ chunkBatch' = AfterDetach(grown)
               /\ wpc' = [wpc EXCEPT ![w] = "flush"]
               /\ UNCHANGED processedCount
          ELSE /\ chunkBatch' = grown
               /\ wpc' = [wpc EXCEPT ![w] = "dequeue"]
               /\ processedCount' = processedCount + 1
               /\ UNCHANGED wbatch
    /\ batchMu' = MuAfterAppend(w, Len(chunkBatch \o wchunks[w]) >= batchSize)
    /\ wchunks' = [wchunks EXCEPT ![w] = <<>>]
    /\ UNCHANGED <<clientVars, cfgVars, envVars, callVars, wjob>>
    /\ UNCHANGED <<mpc, newHash, files, sent, jobs, closed, errors>>
    /\ UNCHANGED histVars

\* worker loop, line 339: i.flushBatch(ctx, batch) outside the lock
WorkerFlush(w, ok) ==
    /\ wpc[w] = "flush"
    /\ flushed' = FlushBatch(flushed, wbatch[w])
    /\ upsertHist' = UpsertSeen(upsertHist, ok)
    /\ wbatch' = [wbatch EXCEPT ![w] = <<>>]
    /\ wpc' = [wpc EXCEPT ![w] = IF FlushAborts(ok) THEN "done" ELSE "dequeue"]
    /\ processedCount' = IF FlushAborts(ok) THEN processedCount ELSE processedCount + 1
    /\ UNCHANGED <<clientVars, cfgVars, envVars, callVars, wjob, wchunks>>
    /\ UNCHANGED <<mpc, newHash, files, sent, jobs, closed, chunkBatch, batchMu, errors>>
    /\ UNCHANGED <<inFlight, spawned, embedCalls, procCount, outcome, nchunks, chunkerOut, embedded, wLate,
                   cancelPhase, rootLog, doneSince, hashedSince, hashState,
                   runOrigPre, runAmendPre>>

\* ---------------------------------------------------------------- environment
\* the caller cancels the context while IndexPaths runs
Cancel ==
    /\ mpc # "idle" /\ ctxErr = "none"
    /\ ctxErr' = "Canceled"
    /\ cancelPhase' = CancelPhaseOf(mpc)
    /\ UNCHANGED <<clientVars, cfgVars, envVars, runs, paths, pathIdx, result, rootVars, workerVars>>
    /\ UNCHANGED <<inFlight, spawned, embedCalls, flushed, procCount, outcome, nchunks, chunkerOut, embedded, wLate,
                   rootLog, doneSince, hashedSince, hashState, runOrigPre, runAmendPre, upsertHist>>

\* the deadline of the context passes while IndexPaths runs
DeadlineExceeded ==
    /\ mpc # "idle" /\ ctxErr = "none"
    /\ ctxErr' = "DeadlineExceeded"
    /\ UNCHANGED <<clientVars, cfgVars, envVars, runs, paths, pathIdx, result, rootVars, workerVars>>
    /\ UNCHANGED <<inFlight, spawned, embedCalls, flushed, procCount, outcome, nchunks, chunkerOut, embedded, wLate,
                   cancelPhase, rootLog, doneSince, hashedSince, hashState, runOrigPre, runAmendPre, upsertHist>>

\* a file under root r is written: the (path, mtime) listing changes
Touch(r) ==
    /\ treeVer[r] < MaxTouch
    /\ treeVer' = [treeVer EXCEPT ![r] = @ + 1]
    /\ doneSince' = [doneSince EXCEPT ![r] = FALSE]
    /\ hashedSince' = [hashedSince EXCEPT ![r] = FALSE]
    /\ hashState' = IF hashState = "fresh" /\ mpc \notin {"idle", "load"} /\ r = CurRoot
                     THEN "stale" ELSE hashState
    /\ UNCHANGED <<clientVars, cfgVars, tree, sidecarVer, meta, callVars, rootVars, workerVars>>
    /\ UNCHANGED <<inFlight, spawned, embedCalls, flushed, procCount, outcome, nchunks, chunkerOut, embedded, wLate,
                   cancelPhase, rootLog, runOrigPre, runAmendPre, upsertHist>>

Next ==
    \/ \E ps \in PathLists : runs < MaxRuns /\ IndexPathsCall(ps)
    \/ \E loadErr \in BOOLEAN, hashErr \in BOOLEAN : LoadAndHash(loadErr, hashErr)
    \/ Walk
    \/ StartWorkers
    \/ SendJob
    \/ CloseJobs
    \/ WaitCanceled
    \/ WaitAndCheck
    \/ \E ok \in BOOLEAN : FinalFlush(ok)
    \/ \E saveErr \in BOOLEAN : SaveMetadata(saveErr)
    \/ \E w \in WorkerIds : WorkerDequeue(w)
    \/ \E w \in WorkerIds : WorkerCheck(w)
    \/ \E w \in WorkerIds : WorkerProcess(w)
    \/ \E w \in WorkerIds : WorkerLock(w)
    \/ \E w \in WorkerIds : WorkerAppend(w)
    \/ \E w \in WorkerIds, ok \in BOOLEAN : WorkerFlush(w, ok)
    \/ Cancel
    \/ DeadlineExceeded
    \/ \E r \in Roots : Touch(r)

Spec == Init /\ [][Next]_vars

\* one call on the three-file root, whose tree stays as it is
NextPool ==
    \/ runs = 0 /\ IndexPathsCall(<<1>>)
    \/ LoadAndHash(FALSE, FALSE)
    \/ Walk
    \/ StartWorkers
    \/ SendJob
    \/ CloseJobs
    \/ WaitCanceled
    \/ WaitAndCheck
    \/ \E ok \in BOOLEAN : FinalFlush(ok)
    \/ \E saveErr \in BOOLEAN : SaveMetadata(saveErr)
    \/ \E w \in WorkerIds : WorkerDequeue(w)
    \/ \E w \in WorkerIds : WorkerCheck(w)
    \/ \E w \in WorkerIds : WorkerProcess(w)
    \/ \E w \in WorkerIds : WorkerLock(w)
    \/ \E w \in WorkerIds : WorkerAppend(w)
    \/ \E w \in WorkerIds, ok \in BOOLEAN : WorkerFlush(w, ok)
    \/ Cancel
    \/ DeadlineExceeded

SpecPool == InitPool /\ [][NextPool]_vars

\* the steps of IndexPaths and of its workers, without those of the caller
\* (the call itself, the cancellation)
ProgramStep ==
    \/ LoadAndHash(FALSE, FALSE)
    \/ Walk
    \/ StartWorkers
    \/ SendJob
    \/ CloseJobs
    \/ WaitCanceled
    \/ WaitAndCheck
    \/ \E ok \in BOOLEAN : FinalFlush(ok)
    \/ \E saveErr \in BOOLEAN : SaveMetadata(saveErr)
    \/ \E w \in WorkerIds : WorkerDequeue(w)
    \/ \E w \in WorkerIds : WorkerCheck(w)
    \/ \E w \in WorkerIds : WorkerProcess(w)
    \/ \E w \in WorkerIds : WorkerLock(w)
    \/ \E w \in WorkerIds : WorkerAppend(w)
    \/ \E w \in WorkerIds, ok \in BOOLEAN : WorkerFlush(w, ok)

\* the worker pool under a scheduler that runs some goroutine that can run,
\* every collaborator call returning
SpecPoolLive == InitPool /\ [][NextPool]_vars /\ WF_vars(ProgramStep)

\* ---------------------------------------------------------------- records and upserts
\* processFile builds the record of one chunk; it waits in the caller's batch
BuildRecord(root, rel, line, content) ==
    /\ tspc = "idle" /\ ixBuilt < MaxBuilds
    /\ ixBatch' = Append(ixBatch, IndexedChunk(root, rel, line, content))
    /\ ixBuilt' = ixBuilt + 1
    /\ UNCHANGED <<tsBatchSize, tsIndex, tsChunks, tsI, tsResult, tspc, tsHist, tsCallVars>>
    /\ UNCHANGED <<pipelineVars, syncVars, gemVars, backendVars>>

\* UpsertChunks, lines 135-143: nothing to do for an empty slice
UpsertChunks ==
    /\ tspc = "idle"
    /\ IF Len(ixBatch) = 0
       THEN /\ tsResult' = "nil"
            /\ UNCHANGED <<tsChunks, ixBatch, tspc>>
       ELSE /\ tsChunks' = ixBatch /\ ixBatch' = <<>>
            /\ tsResult' = "none" /\ tspc' = "loop"
    /\ tsI' = 0
    /\ tsInput' = ixBatch /\ tsGroups' = <<>> /\ tsErrBatch' = NoBatch /\ tsAnswers' = <<>>
    /\ UNCHANGED <<tsBatchSize, tsIndex, ixBuilt, tsHist>>
    /\ UNCHANGED <<pipelineVars, syncVars, gemVars, backendVars>>

\* the answers of the backend to an import request: a status, 0 standing
\* for no response, and for a 200 the number of leading records of the
\* request whose result line reports {"success": false}
ImportAnswers ==
    {[status |-> 200, rejected |-> 0], [status |-> 200, rejected |-> 1],
     [status |-> 500, rejected |-> 0], [status |-> 0, rejected |-> 0]}

\* the records of an import request that the backend stores
Accepted(batch, ans) ==
    IF ans.status = 200 THEN SubSeq(batch, ans.rejected + 1, Len(batch)) ELSE <<>>

\* upsertBatch, lines 180-191: nil for a response of status 200
ImportOkAllLines(ans) == ans.status = 200 /\ ans.rejected = 0
ImportOk(ans) == ans.status = 200

\* UpsertChunks, lines 145-157 with upsertBatch: one pass of the loop; the
\* import is answered by ans, and a failure ends the call
UpsertLoop(ans) ==
    /\ tspc = "loop"
    /\ LET bs == EffBatchSize(tsBatchSize)
           end == Min(tsI + bs, Len(tsChunks))
           batch == SubSeq(tsChunks, tsI + 1, end)
       IN /\ tsIndex' = ImportUpsert(tsIndex, Accepted(batch, ans))
          /\ tsHist' = HistAfter(tsHist, Accepted(batch, ans))
          /\ tsGroups' = Append(tsGroups, batch)
          /\ tsAnswers' = Append(tsAnswers, ans)
          /\ IF ImportOk(ans)
             THEN /\ tsErrBatch' = tsErrBatch
                  /\ IF tsI + bs < Len(tsChunks)
                     THEN /\ tsI' = tsI + bs
                          /\ UNCHANGED <<tsChunks, tsResult, tspc>>
                     ELSE /\ tsResult' = "nil" /\ tspc' = "idle"
                          /\ tsChunks' = <<>> /\ tsI' = 0
             ELSE /\ tsResult' = "upserting batch failed" /\ tspc' = "idle"
                  /\ tsChunks' = <<>> /\ tsI' = 0
                  /\ tsErrBatch' = ErrBatchIndex(tsI, bs)
    /\ UNCHANGED <<tsBatchSize, ixBatch, ixBuilt, tsInput>>
    /\ UNCHANGED <<pipelineVars, syncVars, gemVars, backendVars>>

NextIndex ==
    \/ \E root \in RootLocs, rel \in RelPaths, line \in 1..MaxLine, content \in Contents :
          BuildRecord(root, rel, line, content)
    \/ UpsertChunks
    \/ \E ans \in ImportAnswers : UpsertLoop(ans)

\* a client of any batch size over an empty collection; the pipeline is idle
InitIndex ==
    /\ tree = [r \in Roots |-> <<>>]
    /\ InitRest
    /\ syDocs = {} /\ SyncRest
    /\ workers = 1 /\ batchSize = 1
    /\ tsBatchSize \in TsBatchSizes
    /\ TsRest
    /\ collExists = FALSE /\ BackendRest
    /\ NewGeminiClient(defaultRateLimit)

SpecIndex == InitIndex /\ [][NextIndex]_vars

\* ---------------------------------------------------------------- EnsureCollection, Search
\* the call of caller c returns res
EnsureReturn(c, res) ==
    /\ ecpc' = [ecpc EXCEPT ![c] = "idle"]
    /\ ecResults' = Append(ecResults, res)

\* caller c calls EnsureCollection
EnsureCollection(c) ==
    /\ ecpc[c] = "idle" /\ ecN < MaxEnsure
    /\ ecN' = ecN + 1
    /\ ecCur' = [ecCur EXCEPT ![c] = ecN + 1]
    /\ ecpc' = [ecpc EXCEPT ![c] = "check"]
    /\ UNCHANGED <<collExists, ecLog, ecResults, searchVars>>
    /\ UNCHANGED <<pipelineVars, syncVars, tsVars, gemVars>>

\* EnsureCollection, lines 64-88: the existence check is answered
EnsureCheck(c, status) ==
    /\ ecpc[c] = "check"
    /\ status \in GetAnswers(collExists)
    /\ ecLog' = Append(ecLog, [call |-> ecCur[c], req |-> "GET", status |-> status])
    /\ IF status = 0 THEN EnsureReturn(c, "checking collection")
       ELSE IF CollectionExists(status) THEN EnsureReturn(c, "nil")
       ELSE IF NeedsCreate(status)
       THEN ecpc' = [ecpc EXCEPT ![c] = "create"] /\ UNCHANGED ecResults
       ELSE EnsureReturn(c, "unexpected status")
    /\ UNCHANGED <<collExists, ecCur, ecN, searchVars>>
    /\ UNCHANGED <<pipelineVars, syncVars, tsVars, gemVars>>

\* createCollection, lines 113-131: the create request is answered
EnsureCreate(c, ans) ==
    /\ ecpc[c] = "create"
    /\ ans \in PostAnswers(collExists)
    /\ ecLog' = Append(ecLog, [call |-> ecCur[c], req |-> "POST", status |-> ans.status])
    /\ collExists' = (collExists \/ ans.created)
    /\ IF ans.status = 0 THEN EnsureReturn(c, "creating collection")
       ELSE IF CreateOk(ans.status) THEN EnsureReturn(c, "nil")
       ELSE EnsureReturn(c, "failed to create collection")
    /\ UNCHANGED <<ecCur, ecN, searchVars>>
    /\ UNCHANGED <<pipelineVars, syncVars, tsVars, gemVars>>

\* another client of the backend creates the collection
OtherCreates ==
    /\ ~collExists
    /\ collExists' = TRUE
    /\ UNCHANGED <<ecpc, ecCur, ecN, ecLog, ecResults, searchVars>>
    /\ UNCHANGED <<pipelineVars, syncVars, tsVars, gemVars>>

\* Search, lines 195-255, answered with resp
Search(resp) ==
    /\ sN < MaxSearch
    /\ sN' = sN + 1
    /\ sResp' = resp
    /\ sErr' = SearchError(resp)
    /\ sOut' = IF SearchError(resp) = "nil" /\ Len(resp.results) > 0
               THEN DocsOf(resp.results[1]) ELSE <<>>
    /\ UNCHANGED ecVars
    /\ UNCHANGED <<pipelineVars, syncVars, tsVars, gemVars>>

\* a client of a backend that has the collection or not
InitBackend ==
    /\ tree = [r \in Roots |-> <<>>]
    /\ InitRest
    /\ syDocs = {} /\ SyncRest
    /\ workers = 1 /\ batchSize = 1
    /\ tsBatchSize = defaultBatchSize
    /\ TsRest
    /\ collExists \in BOOLEAN /\ BackendRest
    /\ NewGeminiClient(defaultRateLimit)

\* calls made one after another by one caller
NextBackend ==
    \/ EnsureCollection(1)
    \/ \E status \in {0, 200, 404, 500} : EnsureCheck(1, status)
    \/ \E ans \in PostAnswers(TRUE) \cup PostAnswers(FALSE) : EnsureCreate(1, ans)
    \/ OtherCreates
    \/ \E resp \in SearchAnswers : Search(resp)

SpecBackend == InitBackend /\ [][NextBackend]_vars

\* two callers of EnsureCollection against a backend that answers every
\* request: 200 or 404 to the check, 201 or 409 to the create
WorkingPostAnswers ==
    {[status |-> 201, created |-> TRUE], [status |-> 409, created |-> FALSE]}

NextEnsure ==
    \/ \E c \in EnsureCallers : EnsureCollection(c)
    \/ \E c \in EnsureCallers, status \in {200, 404} : EnsureCheck(c, status)
    \/ \E c \in EnsureCallers, ans \in WorkingPostAnswers : EnsureCreate(c, ans)
    \/ \E resp \in SearchAnswers : Search(resp)

SpecEnsure == InitBackend /\ [][NextEnsure]_vars

\* ---------------------------------------------------------------- Embed / EmbedBatch
\* the call of caller c returns err
GemReturn(c, err) ==
    /\ gpc' = [gpc EXCEPT ![c] = "idle"]
    /\ gResult' = [gResult EXCEPT ![c] = err]

\* limiter.Wait returned nil: the call goes on to doRequestWithRetry
Admitted(c) ==
    /\ gWaits' = [gWaits EXCEPT ![c] = @ + 1]
    /\ admits' = Append(admits, now)
    /\ gpc' = [gpc EXCEPT ![c] = "attempt"]
    /\ gAttempt' = [gAttempt EXCEPT ![c] = 0]
    /\ gBackoff' = [gBackoff EXCEPT ![c] = initialBackoff]

\* Embed, lines 92-95, and EmbedBatch, lines 118-121: the input check
Embed(c, call) ==
    /\ gpc[c] = "idle" /\ gCalls < MaxCalls
    /\ gCalls' = gCalls + 1
    /\ gOp' = [gOp EXCEPT ![c] = call.op]
    /\ gTexts' = [gTexts EXCEPT ![c] = call.texts]
    /\ gVecs' = [gVecs EXCEPT ![c] = <<>>]
    /\ gCtx' = [gCtx EXCEPT ![c] = "none"]
    /\ gHttp' = [gHttp EXCEPT ![c] = <<>>]
    /\ gWaits' = [gWaits EXCEPT ![c] = 0]
    /\ IF InputValid(call)
       THEN /\ gpc' = [gpc EXCEPT ![c] = "limiter"]
            /\ gResult' = [gResult EXCEPT ![c] = NoResult]
       ELSE GemReturn(c, InvalidInput)
    /\ UNCHANGED <<limVars, now, gAttempt, gBackoff, gWake, admits>>
    /\ UNCHANGED <<pipelineVars, syncVars, backendVars, tsVars>>

\* Embed, lines 97-100: c.limiter.Wait(ctx) up to the reservation; a
\* reservation without delay returns at once
LimiterWait(c) ==
    /\ gpc[c] = "limiter"
    /\ IF CtxDone(gCtx[c])
       THEN /\ GemReturn(c, LimiterError(gCtx[c]))
            /\ UNCHANGED <<limVars, gAttempt, gBackoff, gWake, gWaits, admits>>
       ELSE /\ limTokens' = ReserveTokens(now)
            /\ limLast' = now
            /\ limLastEvent' = now + ReserveDelay(now)
            /\ UNCHANGED rateLimit
            /\ IF ReserveDelay(now) = 0
               THEN Admitted(c) /\ UNCHANGED <<gWake, gResult>>
               ELSE /\ gpc' = [gpc EXCEPT ![c] = "wait"]
                    /\ gWake' = [gWake EXCEPT ![c] = now + ReserveDelay(now)]
                    /\ UNCHANGED <<gAttempt, gBackoff, gResult, gWaits, admits>>
    /\ UNCHANGED <<now, gCtx, gCalls, gHttp>>
    /\ UNCHANGED <<pipelineVars, syncVars, backendVars, tsVars, ioVars>>

\* limiter.Wait: the reservation's timer fires
LimiterWake(c) ==
    /\ gpc[c] = "wait" /\ now >= gWake[c]
    /\ Admitted(c)
    /\ UNCHANGED <<limVars, now, gCtx, gWake, gResult, gCalls, gHttp>>
    /\ UNCHANGED <<pipelineVars, syncVars, backendVars, tsVars, ioVars>>

\* limiter.Wait: the context ends first; the reservation is canceled, which
\* gives its token back unless a later reservation was built on it
LimiterCancel(c) ==
    /\ gpc[c] = "wait" /\ CtxDone(gCtx[c])
    /\ LET restore == Interval(rateLimit) - (limLastEvent - gWake[c])
       IN IF gWake[c] < now \/ restore <= 0
          THEN UNCHANGED <<limTokens, limLast, limLastEvent>>
          ELSE /\ limTokens' = Min(Interval(rateLimit),
                                  Advance(limTokens, now - limLast, rateLimit) + restore)
               /\ limLast' = now
               /\ limLastEvent' = IF gWake[c] = limLastEvent
                                     /\ gWake[c] - Interval(rateLimit) >= now
                                  THEN gWake[c] - Interval(rateLimit)
                                  ELSE limLastEvent
    /\ GemReturn(c, LimiterError(gCtx[c]))
    /\ UNCHANGED <<rateLimit, now, gCtx, gAttempt, gBackoff, gWake, gHistVars>>
    /\ UNCHANGED <<pipelineVars, syncVars, backendVars, tsVars, ioVars>>

\* doRequestWithRetry, lines 167-186: one HTTP attempt that gets answer o,
\* and what the loop does with its error
DoRequestStep(c, o) ==
    /\ gpc[c] = "attempt"
    /\ (o.kind = "ctx") <=> CtxDone(gCtx[c])
    /\ gHttp' = [gHttp EXCEPT ![c] = Append(@, o)]
    /\ (o.body \in {"short", "long"}) => (gOp[c] = "EmbedBatch")
    /\ gVecs' = [gVecs EXCEPT ![c] =
                    IF doRequest(o, gCtx[c]) = Nil THEN Decode(o, gTexts[c]) ELSE @]
    /\ UNCHANGED <<gOp, gTexts>>
    /\ LET err == doRequest(o, gCtx[c])
       IN IF err = Nil
          THEN GemReturn(c, Nil) /\ UNCHANGED <<gAttempt, gWake>>
          ELSE IF StopsOnAPIError(err) \/ StopsOnContextError(err)
          THEN GemReturn(c, err) /\ UNCHANGED <<gAttempt, gWake>>
          ELSE IF LoopContinues(gAttempt[c] + 1)
          THEN /\ gAttempt' = [gAttempt EXCEPT ![c] = @ + 1]
               /\ gpc' = [gpc EXCEPT ![c] = "backoff"]
               /\ gWake' = [gWake EXCEPT ![c] = now + gBackoff[c]]
               /\ UNCHANGED gResult
          ELSE GemReturn(c, RetriesExceeded(err)) /\ UNCHANGED <<gAttempt, gWake>>
    /\ UNCHANGED <<limVars, now, gCtx, gBackoff, gCalls, gWaits, admits>>
    /\ UNCHANGED <<pipelineVars, syncVars, backendVars, tsVars>>

\* doRequestWithRetry, lines 157-165: time.After(backoff) fires
BackoffWake(c) ==
    /\ gpc[c] = "backoff" /\ now >= gWake[c]
    /\ gBackoff' = [gBackoff EXCEPT ![c] = NextBackoff(@)]
    /\ gpc' = [gpc EXCEPT ![c] = "attempt"]
    /\ UNCHANGED <<limVars, now, gCtx, gAttempt, gWake, gResult, gHistVars>>
    /\ UNCHANGED <<pipelineVars, syncVars, backendVars, tsVars, ioVars>>

\* doRequestWithRetry, lines 160-161: the context ends during the backoff
BackoffCancel(c) ==
    /\ gpc[c] = "backoff" /\ SleepInterrupted(gCtx[c])
    /\ GemReturn(c, CtxErr(gCtx[c]))
    /\ UNCHANGED <<limVars, now, gCtx, gAttempt, gBackoff, gWake, gHistVars>>
    /\ UNCHANGED <<pipelineVars, syncVars, backendVars, tsVars, ioVars>>

\* the caller cancels the context of its call in progress
CancelCall(c) ==
    /\ gpc[c] # "idle" /\ gCtx[c] = "none"
    /\ gCtx' = [gCtx EXCEPT ![c] = "Canceled"]
    /\ UNCHANGED <<limVars, now, gpc, gAttempt, gBackoff, gWake, gResult, gHistVars>>
    /\ UNCHANGED <<pipelineVars, syncVars, backendVars, tsVars, ioVars>>

\* a second passes
Tick ==
    /\ now < MaxTime
    /\ now' = now + 1
    /\ UNCHANGED <<limVars, callerVars, gHistVars>>
    /\ UNCHANGED <<pipelineVars, syncVars, backendVars, tsVars, ioVars>>

\* a client of any rate limit; the pipeline and the search index are idle
InitGem ==
    /\ tree = [r \in Roots |-> <<>>]
    /\ InitRest
    /\ syDocs = {} /\ SyncRest
    /\ workers = 1 /\ batchSize = 1
    /\ NewTypesenseClient
    /\ \E rl \in RateLimits : NewGeminiClient(rl)

\* the one call of a client that is used once
EmbedOnce(call) == gCalls = 0 /\ Embed(1, call)

\* one call of one caller, whose HTTP attempts get any answer
NextRetry ==
    \/ \E call \in EmbedInputs : EmbedOnce(call)
    \/ LimiterWait(1)
    \/ \E o \in Outcomes : DoRequestStep(1, o)
    \/ BackoffWake(1)
    \/ BackoffCancel(1)
    \/ CancelCall(1)
    \/ Tick

SpecRetry == InitGem /\ [][NextRetry]_vars

\* concurrent callers of one client whose HTTP attempts succeed
NextLimiter ==
    \/ \E c \in Callers, call \in EmbedInputs : Embed(c, call)
    \/ \E c \in Callers : LimiterWait(c)
    \/ \E c \in Callers : LimiterWake(c)
    \/ \E c \in Callers : LimiterCancel(c)
    \/ \E c \in Callers, o \in {Answer200, AnswerCtx} : DoRequestStep(c, o)
    \/ \E c \in Callers : CancelCall(c)
    \/ Tick

SpecLimiter == InitGem /\ [][NextLimiter]_vars

\* one call of either method; a 200 answer may carry another number of
\* embeddings than the request had texts
NextBatch ==
    \/ \E call \in EmbedInputs \cup EmbedBatchInputs : EmbedOnce(call)
    \/ LimiterWait(1)
    \/ \E o \in BatchOutcomes : DoRequestStep(1, o)
    \/ BackoffWake(1)
    \/ BackoffCancel(1)
    \/ CancelCall(1)
    \/ Tick

SpecBatch == InitGem /\ [][NextBatch]_vars

\* ---------------------------------------------------------------- Sync
\* Sync is called with files and projects
Sync(fs, projects) ==
    /\ sypc = "idle"
    /\ syFiles' = fs /\ syProjects' = projects
    /\ syResult' = ZeroResult /\ syLog' = <<>>
    /\ syI' = 0 /\ syP' = 0
    /\ sypc' = "files"
    /\ UNCHANGED syDocs
    /\ UNCHANGED <<pipelineVars, tsVars, gemVars, backendVars>>

\* Sync, lines 19-55: one pass of the loop over the files; GetDocument and
\* UpsertDocument fail or not, and time.Now().Unix() returns t
SyncFile(getErr, upErr, t) ==
    /\ sypc = "files" /\ syI < Len(syFiles)
    /\ LET file == syFiles[syI + 1]
           docID == ComputeDocumentID(file.Path)
           existingDoc == GetDocument(syDocs, docID)
           doc == [ID |-> docID, Path |-> file.Path, IndexedAt |-> t]
           upserts == ~getErr /\ (existingDoc = NoDocument \/ IsModified(file, existingDoc))
       IN /\ syResult' =
                IF getErr THEN [syResult EXCEPT !.Failed = @ + 1]
                ELSE IF existingDoc = NoDocument
                THEN IF upErr THEN [syResult EXCEPT !.Failed = @ + 1]
                     ELSE [syResult EXCEPT !.Added = @ + 1]
                ELSE IF IsModified(file, existingDoc)
                THEN IF upErr THEN [syResult EXCEPT !.Failed = @ + 1]
                     ELSE [syResult EXCEPT !.Updated = @ + 1]
                ELSE [syResult EXCEPT !.Unchanged = @ + 1]
          /\ syDocs' = IF upserts /\ ~upErr THEN UpsertDocument(syDocs, doc) ELSE syDocs
          /\ syLog' = Append(syLog, [file |-> file, before |-> existingDoc,
                                     getErr |-> getErr, upserted |-> upserts,
                                     upErr |-> upserts /\ upErr, result |-> syResult'])
    /\ syI' = syI + 1
    /\ UNCHANGED <<syFiles, syProjects, sypc, syP>>
    /\ UNCHANGED <<pipelineVars, tsVars, gemVars, backendVars>>

\* Sync, line 58: the loop over the files is over
SyncFilesDone ==
    /\ sypc = "files" /\ syI = Len(syFiles)
    /\ sypc' = "cleanup"
    /\ UNCHANGED <<syFiles, syProjects, syDocs, syI, syP, syResult, syLog>>
    /\ UNCHANGED <<pipelineVars, tsVars, gemVars, backendVars>>

\* Sync, lines 58-73: one pass of the cleanup loop over the projects;
\* SearchByPathPrefix fails or not, and DeleteDocument fails for the
\* documents of failing
SyncCleanup(searchErr, failing) ==
    /\ sypc = "cleanup" /\ syP < Len(syProjects)
    /\ LET currentPaths == {syFiles[k].Path : k \in 1..Len(syFiles)}
           docs == SearchByPathPrefix(syDocs, syProjects[syP + 1])
           gone == IF searchErr THEN {} ELSE {d \in docs : d.Path \notin currentPaths}
       IN /\ failing \subseteq gone
          /\ syDocs' = syDocs \ (gone \ failing)
          /\ syResult' = [syResult EXCEPT !.Deleted = @ + Cardinality(gone \ failing),
                                          !.Failed = @ + Cardinality(failing)]
    /\ syP' = syP + 1
    /\ UNCHANGED <<syFiles, syProjects, sypc, syI, syLog>>
    /\ UNCHANGED <<pipelineVars, tsVars, gemVars, backendVars>>

\* Sync, line 75: return result
SyncReturn ==
    /\ sypc = "cleanup" /\ syP = Len(syProjects)
    /\ sypc' = "done"
    /\ UNCHANGED <<syFiles, syProjects, syDocs, syI, syP, syResult, syLog>>
    /\ UNCHANGED <<pipelineVars, tsVars, gemVars, backendVars>>

\* a pass of the cleanup loop, with any outcome of its client calls
SyncCleanupStep ==
    \E searchErr \in BOOLEAN, failing \in SUBSET syDocs : SyncCleanup(searchErr, failing)

NextSync ==
    \/ \E fs \in FileLists, projects \in ProjectLists : Sync(fs, projects)
    \/ \E getErr \in BOOLEAN, upErr \in BOOLEAN, t \in SyTimes : SyncFile(getErr, upErr, t)
    \/ SyncFilesDone
    \/ SyncCleanupStep
    \/ SyncReturn

\* one call of Sync over a store that holds documents indexed at time 1
InitSync ==
    /\ tree = [r \in Roots |-> <<>>]
    /\ InitRest
    /\ workers = 1 /\ batchSize = 1
    /\ NewTypesenseClient
    /\ NewGeminiClient(defaultRateLimit)
    /\ syDocs \in SUBSET {Document(p, 1) : p \in SyPaths}
    /\ SyncRest

SpecSync == InitSync /\ [][NextSync]_vars

\* ---------------------------------------------------------------- claims
AtJoinUncanceled == mpc \in {"finalflush", "save"}

NoPipelineWork == spawned = 0 /\ embedCalls = 0 /\ Len(flushed) = 0

C2_ProcessedExactlyOnce ==
    /\ \A f \in AllFiles : procCount[f] <= 1
    /\ AtJoinUncanceled => \A f \in Range(files) : procCount[f] = 1

C2_Witness ==
    /\ mpc = "save" /\ workers = 2 /\ Len(files) = 3
    /\ \A f \in Range(files) : procCount[f] = 1

\* C3: the number of files between processing start and processing end never
\* exceeds the configured worker count.
C3_InFlightAtMostWorkers == inFlight <= workers

C3_Witness == workers = 2 /\ inFlight = 2 /\ jobs # <<>>

\* number of times record rec occurs in the batches handed to flushBatch
RECURSIVE CountIn(_, _)
CountIn(rec, log) ==
    IF log = <<>> THEN 0
    ELSE Cardinality({i \in 1..Len(Head(log)) : Head(log)[i] = rec})
         + CountIn(rec, Tail(log))

Produced(f, j) == outcome[f] = "ok" /\ j <= nchunks[f]

\* C4: no record is ever flushed twice, and at the end of a run that was not
\* canceled every record returned by processFile is in exactly one flushed batch.
C4_RecordsFlushedExactlyOnce ==
    \A f \in AllFiles : \A j \in 1..MaxChunks :
        /\ CountIn(<<f, j>>, flushed) <= 1
        /\ mpc = "save" => CountIn(<<f, j>>, flushed) = (IF Produced(f, j) THEN 1 ELSE 0)

C4_Witness ==
    /\ mpc = "save" /\ workers = 2 /\ Len(flushed) = 2
    /\ chunkBatch # <<>>
    /\ \A f \in Range(files) : nchunks[f] >= 1

\* C5: every batch handed to flushBatch holds at most batchSize records.
C5_BatchAtMostBatchSize ==
    \A i \in 1..Len(flushed) : Len(flushed[i]) <= batchSize

\* C6: when the workers have been joined in a run that was not canceled,
\* every walked file has an outcome, the recorded errors are exactly the
\* failed files, and the call on that root returns nil.
C6_FailureIsolation ==
    /\ AtJoinUncanceled =>
          /\ \A f \in Range(files) : outcome[f] # "none"
          /\ Len(errors) = Cardinality({f \in Range(files) : outcome[f] = "failed"})
          /\ \A f \in Range(files) :
                outcome[f] = "failed" <=> \E i \in 1..Len(errors) : errors[i] = f
    /\ (mpc = "idle" /\ rootLog # <<>> /\ rootLog[1].how \in {"saved", "unsaved"})
          => result = "nil"

C6_Witness ==
    /\ mpc = "save" /\ workers = 1
    /\ outcome[1] = "failed" /\ outcome[2] = "ok" /\ outcome[3] = "ok"
    /\ nchunks[2] = 1 /\ nchunks[3] = 1 /\ Len(errors) = 1

\* C7: a call whose context was canceled while a root was in its hash check,
\* walk, job dispatch or file processing returns context.Canceled.
C7_CancelReturnsCanceled ==
    (mpc = "idle" /\ cancelPhase = "early") => result = "Canceled"

\* C8: once the context has been canceled, at the latest during the root's
\* final flush, no metadata is written.
C8_NoMetadataOnceCanceled ==
    [][(cancelPhase \in {"early", "flush"}) => (meta' = meta)]_vars

\* C9: a worker never processes a job it took from the queue after the
\* context was canceled.
C9_NoProcessingAfterCancel ==
    \A w \in WorkerIds : wpc[w] = "process" => ~wLate[w]

C9_Witness == \E w \in WorkerIds : wpc[w] = "check" /\ wLate[w] /\ jobs # <<>>

\* C10: when the context is not canceled, a call returns nil after running
\* every root of its list, and a root whose walk failed started no worker.
C10_WalkFailureIsolated ==
    (mpc = "idle" /\ runs > 0 /\ ctxErr = "none") =>
        /\ result = "nil"
        /\ Len(rootLog) = Len(paths)
        /\ \A i \in 1..Len(rootLog) :
              rootLog[i].how = "walkfailed" => rootLog[i].spawned = 0

C10_Witness ==
    /\ mpc = "idle" /\ ctxErr = "none" /\ result = "nil"
    /\ Len(rootLog) = 2
    /\ rootLog[1].how = "walkfailed" /\ rootLog[2].how = "saved"

\* C11: a root whose content hash could not be computed is not walked, starts
\* no worker, has no file embedded or upserted, and its run saves no metadata.
C11_HashFailureAbortsRoot ==
    hashState = "error" =>
        /\ files = <<>> /\ NoPipelineWork
        /\ (mpc = "idle" /\ Len(rootLog) = pathIdx /\ rootLog # <<>>)
              => rootLog[Len(rootLog)].how # "saved"

\* C12: a failed UpsertBatch does not end the run: every walked file is still
\* processed, every produced record is handed to flushBatch exactly once
\* (the failed batch is not submitted again, later batches still are), the
\* root's run returns nil, and unless the save itself fails the new content
\* hash is saved.
C12_FlushFailureTolerated ==
    /\ (upsertHist # "none" /\ AtJoinUncanceled) =>
          \A f \in Range(files) : outcome[f] # "none"
    /\ (upsertHist # "none" /\ mpc = "save") =>
          \A f \in Range(files) : \A j \in 1..MaxChunks :
              CountIn(<<f, j>>, flushed) = (IF Produced(f, j) THEN 1 ELSE 0)
    /\ \A i \in 1..Len(rootLog) :
          /\ rootLog[i].how # "flushfailed"
          /\ (rootLog[i].upsert # "none" /\ mpc = "idle") =>
                /\ rootLog[i].how \in {"saved", "unsaved", "canceled"}
                /\ rootLog[i].how # "canceled" => result = "nil"
                /\ rootLog[i].how = "saved" => meta[paths[i]] = ComputeHash(paths[i])

C12_Witness ==
    /\ mpc = "idle" /\ result = "nil" /\ ctxErr = "none"
    /\ rootLog # <<>> /\ rootLog[1].how = "saved"
    /\ rootLog[1].upsert = "failedThenOk"
    /\ meta[1] = ComputeHash(1)

\* C13: a processed file whose chunker returned chunks has had exactly one
\* embedding call, carrying the texts of all its chunks in chunk order; a
\* file that was skipped, failed before the chunker or has no chunk has had none.
C13_OneEmbedCallPerFile ==
    \A f \in AllFiles :
        /\ chunkerOut[f] > 0 =>
              embedded[f] = << [j \in 1..chunkerOut[f] |-> <<f, j>>] >>
        /\ chunkerOut[f] = 0 => embedded[f] = <<>>

C13_Witness ==
    /\ mpc = "save"
    /\ chunkerOut[1] = MaxChunks /\ outcome[1] = "ok" /\ Len(embedded[1]) = 1
    /\ chunkerOut[2] = 0 /\ outcome[2] = "ok" /\ embedded[2] = <<>>
    /\ chunkerOut[3] = 1 /\ outcome[3] = "failed" /\ Len(embedded[3]) = 1

\* records built or stored so far
KnownRecords == Range(ixBatch) \cup Range(tsChunks) \cup tsIndex

\* C14: two records with the same relative path and the same start line
\* carry the same id, whatever root they were indexed under.
C14_IdFromRelPathAndLine ==
    \A a \in KnownRecords, b \in KnownRecords :
        (a.FilePath = b.FilePath /\ a.StartLine = b.StartLine) => a.ID = b.ID

RetryableStatuses == {429, 500, 502, 503, 504}
FailsRetryable(o) == o.kind = "response" /\ o.status \in RetryableStatuses
FailsForGood(o) ==
    o.kind = "response" /\ o.status # 200 /\ o.status \notin RetryableStatuses
AllRetryable(h, n) == \A k \in 1..n : FailsRetryable(h[k])
Returned(c) == gpc[c] = "idle" /\ gResult[c] # NoResult

\* C16: a request whose context stays live and whose attempts all fail with
\* a retryable status never makes more than 4 attempts, returns with the 4th
\* and not before, and returns the retries-exhausted error that wraps the
\* error of that 4th attempt.
C16_FourAttemptsThenExhausted ==
    \A c \in Callers :
        LET h == gHttp[c]
        IN (gCtx[c] = "none" /\ Len(h) >= 1 /\ AllRetryable(h, Len(h))) =>
              /\ Len(h) <= 4
              /\ Returned(c) <=> (Len(h) = 4)
              /\ Returned(c) =>
                    gResult[c] = [kind |-> "max retries exceeded",
                                  cause |-> "APIError",
                                  status |-> h[Len(h)].status]

C16_Witness ==
    /\ Returned(1) /\ gCtx[1] = "none"
    /\ Len(gHttp[1]) = 4
    /\ \A k \in 1..4 : gHttp[1][k].kind = "response" /\ gHttp[1][k].status = 503
    /\ gResult[1].kind = "max retries exceeded" /\ gResult[1].status = 503

\* C17: a request whose context stays live does not return while its
\* attempts, at most 3 so far, have all failed with a retryable status; when
\* the attempt after such failures succeeds, that attempt is the last one (so
\* k failures give k + 1 attempts) and the call returns success.
C17_RetryThenSuccess ==
    \A c \in Callers :
        LET h == gHttp[c]
        IN /\ (gCtx[c] = "none" /\ Len(h) \in 1..3 /\ AllRetryable(h, Len(h)))
                 => gpc[c] \in {"backoff", "attempt"}
           /\ \A k \in 0..3 :
                 (Len(h) > k /\ AllRetryable(h, k) /\ h[k + 1] = Answer200)
                    => (Len(h) = k + 1 /\ gpc[c] = "idle" /\ gResult[c] = Nil)

C17_Witness ==
    /\ Len(gHttp[1]) = 3
    /\ gHttp[1][1].status = 429 /\ gHttp[1][2].status = 429
    /\ gHttp[1][3] = Answer200
    /\ gpc[1] = "idle" /\ gResult[1] = Nil

\* C18: a response with a non-retryable status is the last attempt of its
\* request: the call has returned the API error of that response, it is not
\* sleeping, and when the response came first the request made one attempt.
C18_NonRetryableEndsRequest ==
    \A c \in Callers : \A k \in 1..Len(gHttp[c]) :
        FailsForGood(gHttp[c][k]) =>
            /\ k = Len(gHttp[c])
            /\ gpc[c] = "idle"
            /\ gResult[c] = [kind |-> "APIError", cause |-> "",
                             status |-> gHttp[c][k].status]

C18_Witness ==
    /\ Len(gHttp[1]) = 1
    /\ gHttp[1][1].kind = "response" /\ gHttp[1][1].status = 400
    /\ gpc[1] = "idle" /\ gResult[1].kind = "APIError" /\ gResult[1].status = 400

\* C19: a call has sent no more HTTP attempts than it has completed
\* rate-limiter waits.
C19_WaitBeforeEveryAttempt ==
    \A c \in Callers : Len(gHttp[c]) <= gWaits[c]

\* C20: the j-th call admitted by the limiter of a client is admitted no
\* earlier than (j - 1) * 60 / R seconds after the first one, whichever
\* callers the calls come from.
C20_AdmissionsSpaced ==
    \A j \in 1..Len(admits) :
        admits[j] >= admits[1] + (j - 1) * Interval(rateLimit)

C20_Witness ==
    /\ rateLimit = 30
    /\ Len(admits) = 3
    /\ admits[1] > 0
    /\ admits[3] = admits[1] + 2 * Interval(rateLimit)
    /\ gWaits[1] >= 1 /\ gWaits[2] >= 1

\* C21: a call whose context is done while it sleeps in a backoff can return
\* at once, and whatever it does before the sleep is over is to return the
\* context's error, with no further HTTP attempt.
C21_CancelEndsBackoff ==
    /\ [](\A c \in Callers :
            (gpc[c] = "backoff" /\ CtxDone(gCtx[c])) => ENABLED BackoffCancel(c))
    /\ [][\A c \in Callers :
            (gpc[c] = "backoff" /\ CtxDone(gCtx[c]) /\ now < gWake[c]
             /\ gpc'[c] # "backoff")
               => (/\ gpc'[c] = "idle"
                   /\ gResult'[c] = [kind |-> "ctx", cause |-> gCtx[c], status |-> 0]
                   /\ gHttp'[c] = gHttp[c]
                   /\ now' = now)]_vars

C21_Witness ==
    /\ gpc[1] = "idle" /\ gResult[1].kind = "ctx" /\ gResult[1].cause = "Canceled"
    /\ gAttempt[1] = 2 /\ Len(gHttp[1]) = 2
    /\ now < gWake[1]

\* the inputs the specification calls empty
IsEmptyInput(op, texts) ==
    \/ op = "Embed" /\ texts = <<"">>
    \/ op = "EmbedBatch" /\ Len(texts) = 0

\* C22: a call of Embed with empty text or of EmbedBatch with an empty list
\* has returned the invalid-input error without a rate-limiter wait and
\* without an HTTP attempt, and the step that makes the call leaves the
\* limiter's bucket as it was.
C22_InvalidInputNoSideEffect ==
    /\ [](\A c \in Callers :
            IsEmptyInput(gOp[c], gTexts[c]) =>
                /\ gpc[c] = "idle" /\ gResult[c].kind = "invalid input"
                /\ gHttp[c] = <<>> /\ gWaits[c] = 0 /\ gVecs[c] = <<>>)
    /\ [][\A c \in Callers :
            (gCalls' # gCalls /\ gpc[c] = "idle" /\ gResult'[c] # gResult[c]
             /\ IsEmptyInput(gOp'[c], gTexts'[c]))
               => (limVars' = limVars /\ admits' = admits)]_vars

C22_Witness ==
    /\ gOp[1] = "Embed" /\ gTexts[1] = <<"">>
    /\ gpc[1] = "idle" /\ gResult[1].kind = "invalid input"
    /\ gCalls = 1 /\ limTokens = Interval(rateLimit) /\ admits = <<>>

\* C23, as stated: EmbedBatch with an empty list returns no error and makes
\* no HTTP attempt.
C23_EmptyBatchIsNoOp ==
    \A c \in Callers :
        (gOp[c] = "EmbedBatch" /\ gTexts[c] = <<>> /\ gpc[c] = "idle")
            => (gResult[c] = Nil /\ gHttp[c] = <<>>)

\* C23, amended: EmbedBatch with an empty list makes no HTTP attempt and
\* returns no vectors, and it reports the empty list as an error.
C23_EmptyBatchFailsWithoutCall ==
    \A c \in Callers :
        (gOp[c] = "EmbedBatch" /\ gTexts[c] = <<>> /\ gpc[c] = "idle")
            => (gResult[c].kind = "invalid input" /\ gHttp[c] = <<>> /\ gVecs[c] = <<>>)

C23_Witness ==
    /\ gOp[1] = "EmbedBatch" /\ gTexts[1] = <<>>
    /\ gpc[1] = "idle" /\ gResult[1].kind = "invalid input" /\ gHttp[1] = <<>>

\* C24: an EmbedBatch call that returned success returned one vector per
\* text, the i-th being the embedding of the i-th text.
C24_OneVectorPerText ==
    \A c \in Callers :
        (gOp[c] = "EmbedBatch" /\ gpc[c] = "idle" /\ gResult[c] = Nil) =>
            /\ Len(gVecs[c]) = Len(gTexts[c])
            /\ \A i \in 1..Len(gTexts[c]) : gVecs[c][i] = Emb(gTexts[c][i])

\* the records of a sequence of groups, in order
RECURSIVE Concat(_)
Concat(gs) == IF gs = <<>> THEN <<>> ELSE Head(gs) \o Concat(Tail(gs))

\* the group size the specification gives a client
ClaimedBatchSize == IF tsBatchSize > 0 THEN tsBatchSize ELSE 100

\* C25: the groups UpsertChunks has imported hold 1..batchSize records each,
\* every group but the last sent being full; put end to end they are the
\* start of the input, and the whole input once the call has returned nil,
\* which takes ceil(n / batchSize) groups and none for an empty input.
C25_GroupsOfAtMostBatchSize ==
    /\ \A g \in 1..Len(tsGroups) :
          /\ Len(tsGroups[g]) \in 1..ClaimedBatchSize
          /\ g < Len(tsGroups) => Len(tsGroups[g]) = ClaimedBatchSize
    /\ Len(Concat(tsGroups)) <= Len(tsInput)
    /\ Concat(tsGroups) = SubSeq(tsInput, 1, Len(Concat(tsGroups)))
    /\ (tspc = "idle" /\ tsResult = "nil") =>
          /\ Concat(tsGroups) = tsInput
          /\ Len(tsGroups) = (Len(tsInput) + ClaimedBatchSize - 1) \div ClaimedBatchSize
    /\ (tspc = "idle" /\ tsInput = <<>>) => tsResult \in {"none", "nil"}

C25_Witness ==
    /\ tspc = "idle" /\ tsResult = "nil" /\ tsBatchSize = 1
    /\ Len(tsInput) = 2 /\ Len(tsGroups) = 2
    /\ tsGroups[1] = <<tsInput[1]>> /\ tsGroups[2] = <<tsInput[2]>>

\* C26: a call of UpsertChunks that returned an error sent the failing group
\* last and names its index; every record of the groups before it is in the
\* collection; a call that has returned sends nothing more.
C26_FailureStopsAtGroup ==
    /\ []((tspc = "idle" /\ tsResult = "upserting batch failed") =>
            /\ Len(tsGroups) >= 1
            /\ tsErrBatch = Len(tsGroups) - 1
            /\ \A g \in 1..(Len(tsGroups) - 1) :
                  \A k \in 1..Len(Accepted(tsGroups[g], tsAnswers[g])) :
                     \E e \in tsIndex : e.ID = Accepted(tsGroups[g], tsAnswers[g])[k].ID)
    /\ []((tspc = "idle" /\ tsResult # "upserting batch failed") => tsErrBatch = 0 - 1)
    /\ [][(tspc = "idle") => (tsGroups' = tsGroups \/ tsGroups' = <<>>)]_vars

C26_Witness ==
    /\ tspc = "idle" /\ tsResult = "upserting batch failed"
    /\ tsErrBatch = 1 /\ Len(tsGroups) = 2 /\ Len(tsInput) = 2
    /\ \E e \in tsIndex : e.ID = tsInput[1].ID
    /\ tsInput[2].ID # tsInput[1].ID
    /\ ~ \E e \in tsIndex : e.ID = tsInput[2].ID

\* C27: every create request follows, in the same call, an existence check
\* answered "absent" (404); a check answered "present" (200) is the last
\* request of its call, which returns nil; over calls made one after
\* another at most one create request succeeds, and none is sent once a
\* call has returned nil.
C27_CreateOnlyIfAbsent ==
    /\ \A k \in 1..Len(ecLog) :
          ecLog[k].req = "POST" =>
              /\ k > 1
              /\ ecLog[k - 1] = [call |-> ecLog[k].call, req |-> "GET", status |-> 404]
              /\ \A j \in 1..(ecLog[k].call - 1) : ecResults[j] # "nil"
    /\ \A k \in 1..Len(ecLog) :
          (ecLog[k].req = "GET" /\ ecLog[k].status = 200) =>
              /\ k < Len(ecLog) => ecLog[k + 1].call # ecLog[k].call
              /\ Len(ecResults) >= ecLog[k].call
              /\ ecResults[ecLog[k].call] = "nil"
    /\ Cardinality({k \in 1..Len(ecLog) :
                      ecLog[k].req = "POST" /\ ecLog[k].status \in {200, 201}}) <= 1

C27_Witness ==
    /\ ecpc[1] = "idle" /\ ecN = 2
    /\ ecLog = <<[call |-> 1, req |-> "GET", status |-> 404],
                 [call |-> 1, req |-> "POST", status |-> 201],
                 [call |-> 2, req |-> "GET", status |-> 200]>>
    /\ ecResults = <<"nil", "nil">>

\* C28: a search that returned no error returned the documents of the hits
\* of the answer's result set, as many and in the same order, and none when
\* there are no hits; a search that returned an error returned no document.
C28_SearchReturnsHits ==
    /\ sErr = "nil" =>
          /\ sResp.status = 200
          /\ IF Len(sResp.results) = 0 THEN sOut = <<>>
             ELSE /\ Len(sOut) = Len(sResp.results[1])
                  /\ \A k \in 1..Len(sOut) : sOut[k] = sResp.results[1][k].document
    /\ (sN > 0 /\ sResp.status = 200 /\ sResp.body = "ok") => sErr = "nil"
    /\ sErr # "nil" => sOut = <<>>

C28_Witness ==
    /\ sErr = "nil" /\ Len(sOut) = 2
    /\ sOut[1] # sOut[2]
    /\ sOut[1] = sResp.results[1][1].document
    /\ sOut[2] = sResp.results[1][2].document

\* the jobs held for the root being indexed: the files of the materialized
\* list not yet sent, and the jobs waiting in the queue
HeldJobs ==
    IF mpc \in {"spawn", "send", "close", "wait", "waitcancel"}
    THEN (Len(files) - sent) + Len(jobs) ELSE 0

\* C29: some capacity smaller than the number of files of the largest root
\* bounds the jobs held at any time, and the queue is no larger than that
\* capacity.
C29_BoundedLazyQueue ==
    \E r \in Roots : \E K \in 0..(Len(tree[r]) - 1) :
        /\ HeldJobs <= K
        /\ mpc \in {"send", "close", "wait", "waitcancel"} => JobsCap(files) <= K

\* C30: a worker that is flushing a batch does not hold the batch mutex, the
\* mutex is held only by a worker between its lock and its unlock, and while
\* a worker flushes, a worker waiting for the free mutex can take it.
C30_NoFlushUnderLock ==
    /\ \A w \in WorkerIds : wpc[w] = "flush" => batchMu # w
    /\ \A w \in WorkerIds : batchMu = w => wpc[w] = "crit"
    /\ \A w \in WorkerIds, v \in WorkerIds :
          (wpc[w] = "flush" /\ wpc[v] = "lock" /\ batchMu = 0) => ENABLED WorkerLock(v)

C30_Witness ==
    \E w \in WorkerIds, v \in WorkerIds :
        /\ w # v
        /\ wpc[w] = "flush" /\ Len(wbatch[w]) > 0
        /\ wpc[v] = "crit" /\ batchMu = v

\* C31: in a run that is not canceled the queue is closed only with every
\* walked file enqueued; the final flush and the metadata save find the queue
\* closed and drained and every worker stopped; the metadata is written only
\* by the save step, which is entered only from the final flush.
C31_ShutdownOrder ==
    /\ []((closed /\ ctxErr = "none") => sent = Len(files))
    /\ []((mpc \in {"finalflush", "save"}) =>
            /\ closed /\ sent = Len(files) /\ jobs = <<>>
            /\ \A w \in WorkerIds : wpc[w] \in {"none", "done"})
    /\ [][(meta' # meta \/ sidecarVer' # sidecarVer) => (mpc = "save")]_vars
    /\ [][(mpc' = "save" /\ mpc # "save") => (mpc = "finalflush")]_vars

C31_Witness ==
    /\ mpc = "save" /\ ctxErr = "none"
    /\ closed /\ sent = 3 /\ Len(files) = 3
    /\ Len(flushed) >= 1
    /\ spawned = 2

\* C32: a call of IndexPaths in progress returns, and from the moment the
\* queue is closed or the context is canceled every worker stops.
C32_Terminates ==
    /\ (mpc # "idle") ~> (mpc = "idle" /\ result # "none")
    /\ (mpc # "idle" /\ (closed \/ ctxErr # "none"))
          ~> (\A w \in WorkerIds : wpc[w] \in {"none", "done"})

C32_Witness ==
    /\ mpc = "idle" /\ runs = 1
    /\ result = "Canceled"
    /\ Len(rootLog) = 1 /\ rootLog[1].how = "canceled" /\ rootLog[1].spawned = 2

\* the sleeps the specification gives retries 1, 2 and 3, in seconds
SleepBefore == <<1, 2, 4>>

\* C33: a call sleeps only before a retry n in 1..3, after n attempts; the
\* sleep it starts is due SleepBefore[n] seconds later, and the retry is made
\* no earlier than that.
C33_BackoffDoubles ==
    /\ [](\A c \in Callers :
            gpc[c] = "backoff" =>
                /\ gAttempt[c] \in 1..3
                /\ Len(gHttp[c]) = gAttempt[c]
                /\ gBackoff[c] = SleepBefore[gAttempt[c]])
    /\ [][\A c \in Callers :
            (gpc'[c] = "backoff" /\ gpc[c] # "backoff")
               => (gWake'[c] = now + SleepBefore[gAttempt'[c]])]_vars
    /\ [][\A c \in Callers :
            (gpc[c] = "backoff" /\ gpc'[c] = "attempt") => (now >= gWake[c])]_vars
    /\ [](\A c \in Callers :
            (gpc[c] = "attempt" /\ gAttempt[c] = 0) => Len(gHttp[c]) = 0)

C33_Witness ==
    /\ gpc[1] = "backoff" /\ gAttempt[1] = 3
    /\ gWake[1] = now + 4
    /\ Len(gHttp[1]) = 3

\* C34: against a backend that answers every request, a call of
\* EnsureCollection that returns while the collection exists returns nil.
C34_NilWhenCollectionExists ==
    [][\A c \in EnsureCallers :
         (ecpc[c] # "idle" /\ ecpc'[c] = "idle" /\ collExists')
            => (ecResults'[Len(ecResults')] = "nil")]_vars

C36_SavedHashIsPreWalkHash ==
    /\ [][(mpc \notin {"idle", "load"} /\ mpc' \notin {"idle", "load"})
            => (newHash' = newHash)]_vars
    /\ [][\A r \in Roots : (sidecarVer'[r] # sidecarVer[r]) =>
            /\ mpc = "save" /\ r = CurRoot
            /\ meta'[r] = newHash
            /\ (hashState = "stale") => HasChanged(meta'[r], ComputeHash(r))]_vars
    /\ [][(Len(rootLog') > Len(rootLog) /\ rootLog'[Len(rootLog')].how = "skipped")
            => hashedSince[CurRoot]]_vars

C36_Witness ==
    /\ mpc = "idle" /\ runs = 1 /\ hashState = "stale"
    /\ Len(rootLog) = 1 /\ rootLog[1].how = "saved"
    /\ meta[paths[1]] = <<0>> /\ treeVer[paths[1]] = 1

\* C37: a record of the index stays in it from one step to the next, and
\* changes only when the group being imported holds a record with its id.
C37_NoRecordIsDeleted ==
    [][\A d \in tsIndex :
          \E e \in tsIndex' :
             /\ e.ID = d.ID
             /\ (e # d) => (tspc = "loop" /\ \E k \in 1..Len(tsChunks) : tsChunks[k] = e)]_vars

C37_Witness ==
    /\ tspc = "idle" /\ tsResult = "nil" /\ ixBuilt = 2 /\ Len(tsInput) = 1
    /\ \E d \in tsIndex, e \in tsIndex :
          /\ d.FilePath = e.FilePath /\ d.ProjectPath = e.ProjectPath
          /\ d.StartLine = 1 /\ e.StartLine = 2
          /\ tsInput[1] = e

\* C39: a call of UpsertChunks that has returned returned nil exactly when
\* every import request it sent was answered with status 200, whatever the
\* result lines of the answers say; a nil call sent every group.
C39_StatusAloneDecides ==
    /\ Len(tsAnswers) = Len(tsGroups)
    /\ (tspc = "idle" /\ tsResult # "none") =>
          /\ (tsResult = "nil") <=> (\A g \in 1..Len(tsAnswers) : tsAnswers[g].status = 200)
          /\ (tsResult = "nil") => (Concat(tsGroups) = tsInput)
          /\ (tsResult # "nil") => (tsAnswers[Len(tsAnswers)].status # 200)

C39_Witness ==
    /\ tspc = "idle" /\ tsResult = "nil" /\ Len(tsInput) = 2
    /\ \E g \in 1..Len(tsAnswers) : tsAnswers[g].rejected = 1
    /\ \E k \in 1..Len(tsInput) : tsInput[k] \notin tsIndex

\* a 200 response whose body cannot be decoded
Undecodable(o) == o.kind = "response" /\ o.status = 200 /\ o.body = "bad"
\* the failed attempts the claim says are retried
RetriedFailure(o) == FailsRetryable(o) \/ o.kind = "no response" \/ Undecodable(o)

\* C38: an attempt that fails with a retryable status, a transport error or
\* an undecodable 200 body is followed by a backoff and another attempt
\* while fewer than 4 attempts were made, and by the retries-exhausted error
\* after the fourth; a request whose context stayed live and whose every
\* answer was an undecodable 200 returns that error after exactly 4 attempts.
C38_UndecodableBodyIsRetried ==
    /\ [][(gpc[1] = "attempt" /\ Len(gHttp'[1]) = Len(gHttp[1]) + 1
            /\ RetriedFailure(gHttp'[1][Len(gHttp'[1])])) =>
              IF Len(gHttp'[1]) < maxRetries + 1
              THEN gpc'[1] = "backoff" /\ gAttempt'[1] = gAttempt[1] + 1
              ELSE /\ gpc'[1] = "idle"
                   /\ gResult'[1].kind = "max retries exceeded"]_vars
    /\ []((Returned(1) /\ ~CtxDone(gCtx[1]) /\ Len(gHttp[1]) >= 1
            /\ \A k \in 1..Len(gHttp[1]) : Undecodable(gHttp[1][k])) =>
              /\ Len(gHttp[1]) = maxRetries + 1
              /\ gResult[1].kind = "max retries exceeded"
              /\ gResult[1].cause = "failed to unmarshal response")

C38_Witness ==
    /\ Returned(1) /\ ~CtxDone(gCtx[1]) /\ Len(gHttp[1]) = 4
    /\ \A k \in 1..4 : Undecodable(gHttp[1][k])
    /\ gResult[1].kind = "max retries exceeded"

\* the files counted so far in the four per-file outcomes
FilesCounted(r) == r.Added + r.Updated + r.Unchanged + r.Failed
\* the stored documents of a file's path
StoredFor(file) == {d \in syDocs : d.Path = file.Path}

\* C40: each pass of the file loop adds one to exactly one of Added, Updated,
\* Unchanged and Failed: to Added only when no document of the file's path
\* was stored, to Updated only when the file's mtime is later than the
\* stored IndexedAt, to Unchanged exactly when a lookup that worked found a
\* document with the mtime not later, and then the store is left as it was,
\* to Failed only when the lookup or the upsert failed; the loop reaches the
\* cleanup only after every file was counted, failures included.
C40_OneOutcomePerFile ==
    /\ [][(sypc = "files" /\ syI' = syI + 1) =>
            LET file == syFiles[syI + 1]
                e == syLog'[Len(syLog')]
                r == syResult
                q == syResult'
            IN /\ FilesCounted(q) = FilesCounted(r) + 1
               /\ q.Added >= r.Added /\ q.Updated >= r.Updated
               /\ q.Unchanged >= r.Unchanged /\ q.Failed >= r.Failed
               /\ q.Deleted = r.Deleted
               /\ (q.Added > r.Added) =>
                     (StoredFor(file) = {} /\ Document(file.Path, 1).ID \in {d.ID : d \in syDocs'})
               /\ (q.Updated > r.Updated) =>
                     (\E d \in StoredFor(file) : file.LastModified > d.IndexedAt)
               /\ (q.Unchanged > r.Unchanged) <=>
                     (~e.getErr /\ \E d \in StoredFor(file) : file.LastModified <= d.IndexedAt)
               /\ (q.Unchanged > r.Unchanged) => (~e.upserted /\ syDocs' = syDocs)
               /\ (q.Failed > r.Failed) <=> (e.getErr \/ e.upErr)
               /\ (q.Failed > r.Failed) => (syDocs' = syDocs)]_vars
    /\ [](sypc = "files" => FilesCounted(syResult) = syI)
    /\ []((sypc = "cleanup" /\ syP = 0) =>
            (syI = Len(syFiles) /\ FilesCounted(syResult) = Len(syFiles)))

C40_Witness ==
    /\ sypc = "cleanup" /\ syP = 0 /\ Len(syFiles) = 2
    /\ syLog[1].getErr /\ syResult.Failed = 1 /\ syResult.Unchanged = 1
    /\ syFiles[2].LastModified = syLog[2].before.IndexedAt

====
